---- MODULE Spec2Model ----
(***************************************************************************)
(* YouTube Speed Extender (content.js): the speed-state reconciliation     *)
(* engine.  Rates are integers in hundredths (1.5x is 150), times are      *)
(* milliseconds.  The page's event loop runs one callback per step: a DOM  *)
(* event handler, a timer callback or a mutation-observer callback.        *)
(***************************************************************************)
EXTENDS Integers, Sequences, FiniteSets, TLC

\* ------------------------------------------------------------------------
\* Bounds of the model (not program constants)
\* ------------------------------------------------------------------------
MaxEvents == 2      \* user/host events in one behaviour
MaxNav == 2         \* in-page navigations in one behaviour
MaxPending == 2     \* rate-change notifications queued at once

\* Inputs drawn from small sets
HostRates == {100, 125, 200}              \* rates the host player sets
ClickSpeeds == {100, 150}                 \* augmented-menu entries clicked
\* key presses: the key and whether the target is text-editable
KeyPresses == {<<".", FALSE>>, <<",", FALSE>>, <<"k", FALSE>>, <<".", TRUE>>}

\* ------------------------------------------------------------------------
\* Program constants
\* ------------------------------------------------------------------------
speedOptions == <<50, 100, 150, 200, 250, 300, 350, 400, 450, 500>>
NAVIGATION_MODES == {"continue", "default", "custom"}
NoItem == 0                  \* localStorage.getItem gave null
Epsilon == 5                 \* 0.05
DedupWindow == 100           \* ratechange deduplication window
InitialDelay == 1000         \* first waitForVideoAndFullyInitialize
PollDelay == 500             \* retry while the video is not ready
ApplySettle == 100           \* applyPreferredSpeed flag reset
PersistDelay == 50           \* deferred savePreferredSpeed (continue mode)
PostInitDelay == 2000        \* menu update after initialization
SeekDelay == 100             \* re-apply after seeked
SeekSettle == 100            \* flag reset after the seek re-apply
ReassertDelay == 500         \* re-assert after a navigation reset
ReassertSettle == 100        \* flag reset after the re-assert
NavStartDelay == 1000        \* navigation: wait before initializing
NavMenuDelay == 2000         \* navigation: menu update
NavClearDelay == 1000        \* navigation: clear isNavigating
NoLabel == 0                 \* host settings menu item is not in the DOM
Throttle == 500              \* updateSettingsMenuSpeedValue throttle
MenuDebounce == 250          \* menu update after a menu mutation or click
PanelDebounce == 100         \* menu update after a settings panel mutation

Options == {speedOptions[i] : i \in 1..Len(speedOptions)}

Abs(x) == IF x < 0 THEN -x ELSE x
Min(a, b) == IF a < b THEN a ELSE b
Max(a, b) == IF a > b THEN a ELSE b

\* ------------------------------------------------------------------------
\* Preference store
\* ------------------------------------------------------------------------
\* savePreferredSpeed whose setItem has no effect
savePreferredSpeedDropped(st, speed) == st

savePreferredSpeed(st, speed) == [st EXCEPT !.preferred = speed]

loadPreferredSpeedUnchecked(st) ==
  IF st.preferred # NoItem THEN st.preferred ELSE 100

loadPreferredSpeed(st) ==
  IF st.preferred # NoItem /\ st.preferred \in Options
  THEN st.preferred ELSE 100

\* loadNavigationMode that answers continue whatever is stored
loadNavigationModeContinue(st) == "continue"

loadNavigationMode(st) ==
  IF st.navMode \in NAVIGATION_MODES THEN st.navMode ELSE "continue"

loadCustomNavigationSpeed(st) ==
  IF st.custom # NoItem /\ st.custom \in Options THEN st.custom ELSE 100

saveKeyboardSpeed(st, speed) ==
  [st EXCEPT !.keyboard = speed, !.preferred = speed]

loadIncreaseSpeedKey(st) == IF st.incKey # "" THEN st.incKey ELSE "."

loadDecreaseSpeedKey(st) == IF st.decKey # "" THEN st.decKey ELSE ","

getNavigationSpeedIgnoringMode(st) == loadPreferredSpeed(st)

getNavigationSpeed(st) ==
  CASE loadNavigationMode(st) = "continue" -> loadPreferredSpeed(st)
    [] loadNavigationMode(st) = "default" -> 100
    [] loadNavigationMode(st) = "custom" -> loadCustomNavigationSpeed(st)
    [] OTHER -> loadPreferredSpeed(st)

\* ------------------------------------------------------------------------
\* Speed table lookup
\* ------------------------------------------------------------------------
\* Math.round(currentRate * 10) / 10, in hundredths
RoundTenth(r) == ((r + 5) \div 10) * 10

RECURSIVE FirstMatch(_, _)
FirstMatch(rounded, i) ==
  IF i > Len(speedOptions) THEN 0
  ELSE IF Abs(speedOptions[i] - rounded) < Epsilon THEN i
  ELSE FirstMatch(rounded, i + 1)

RECURSIVE ReduceClosest(_, _, _)
ReduceClosest(rounded, prevIdx, idx) ==
  IF idx > Len(speedOptions) THEN prevIdx
  ELSE ReduceClosest(rounded,
         IF Abs(speedOptions[idx] - rounded) < Abs(speedOptions[prevIdx] - rounded)
         THEN idx ELSE prevIdx,
         idx + 1)

\* getClosestSpeedIndex without the rounding of line 174
getClosestSpeedIndexUnrounded(currentRate) ==
  LET exact == FirstMatch(currentRate, 1)
  IN IF exact # 0 THEN exact ELSE ReduceClosest(currentRate, 1, 1)

\* 1-based index into speedOptions
getClosestSpeedIndex(currentRate) ==
  LET rounded == RoundTenth(currentRate)
      exact == FirstMatch(rounded, 1)
  IN IF exact # 0 THEN exact ELSE ReduceClosest(rounded, 1, 1)

\* ------------------------------------------------------------------------
\* Timers: the pending setTimeout callbacks, ordered by due time and, for
\* equal due times, by creation.
\* ------------------------------------------------------------------------
Timer(rem, kind, speed, nav) ==
  [rem |-> rem, kind |-> kind, speed |-> speed, nav |-> nav]

RECURSIVE Schedule(_, _)
Schedule(ts, t) ==
  IF ts = <<>> THEN <<t>>
  ELSE IF Head(ts).rem <= t.rem THEN <<Head(ts)>> \o Schedule(Tail(ts), t)
  ELSE <<t>> \o ts

Elapse(ts, d) == [i \in 1..Len(ts) |-> [ts[i] EXCEPT !.rem = @ - d]]


\* ------------------------------------------------------------------------
\* State
\* ------------------------------------------------------------------------
VARIABLES
  video,                      \* "none", "loading" (readyState 0) or "ready"
  rate,                       \* video.playbackRate
  hostSeeking,                \* the element is between seeking and seeked
  rcPending,                  \* queued ratechange events, by the writer
  storage,                    \* localStorage entries of the extension
  isUpdatingSpeed,
  isApplyingNavigationSpeed,
  isNavigating,
  isExtensionInitialized,
  lastRateChangeValue,
  sinceRateChange,            \* Date.now() - lastRateChangeTime, saturated
  listeners,                  \* isSeeking of each setupSpeedSynchronization
  timers,
  overlay,                    \* the #yt-speed-ext element
  menuLabel,                  \* text of the host's "Playback speed" item
  menuEnhanced,               \* the speed menu carries the extended entries
  locationChanged,            \* location.href differs from currentUrl
  events,                     \* user/host events so far
  navs,                       \* navigations so far
  hostOther,                  \* the host has set a rate other than 1
  hostInSeek,                 \* the host has set the rate since the latest
                              \* seeking event (since the load before any)
  radioChecked,               \* augmented menu entries with aria-checked true
  modal,                      \* the settings modal is in the document
  speedMenu,                  \* the host's speed menu node (.ytp-speed-menu)
  sinceSettingsUpdate,        \* Date.now() - lastSettingsUpdateTime, saturated
  sincePassiveWrite,          \* time since the menu-update timer wrote the label
  last                        \* the callback that ran last and what it did

vars == <<video, rate, hostSeeking, rcPending, storage, isUpdatingSpeed,
          isApplyingNavigationSpeed, isNavigating, isExtensionInitialized,
          lastRateChangeValue, sinceRateChange, listeners, timers, overlay,
          menuLabel, menuEnhanced, locationChanged, events, navs, hostOther, hostInSeek,
          radioChecked, modal, speedMenu,
          sinceSettingsUpdate, sincePassiveWrite, last>>

Step(op, key, speed, rateWrites, prefWrites, shown) ==
  [op |-> op, key |-> key, speed |-> speed,
   rateBefore |-> rate, prefBefore |-> storage.preferred,
   rateWrites |-> rateWrites, prefWrites |-> prefWrites, shown |-> shown,
   editable |-> FALSE, nav |-> FALSE, origin |-> "", handled |-> FALSE,
   reassert |-> FALSE, prevOp |-> "", prevRateWrites |-> 0,
   labelGap |-> Throttle, shows |-> 0, reasserts |-> 0]

\* the settings modal: not in the document
NoModal ==
  [open |-> FALSE, mode |-> "", custom |-> <<>>, incValue |-> "",
   decValue |-> ""]

\* the host's speed menu before the extension touches it: the marker class
\* is not on the node, it holds no copy of the extended entries and none of
\* its descendants carries the marker class
HostSpeedMenu == [marked |-> FALSE, copies |-> 0, enhancedItems |-> 0]

\* localStorage when the page loads: a fresh profile, a stored speed under
\* each navigation mode, and a stored speed that is no table entry
Store(preferred, navMode, custom) ==
  [preferred |-> preferred, keyboard |-> NoItem, navMode |-> navMode,
   custom |-> custom, incKey |-> "", decKey |-> ""]

InitStores ==
  {Store(NoItem, "absent", NoItem), Store(500, "continue", NoItem),
   Store(125, "continue", NoItem), Store(250, "default", NoItem),
   Store(200, "custom", 50)}

Init ==
  /\ video = "none"
  /\ rate = 100
  /\ hostSeeking = FALSE
  /\ rcPending = <<>>
  /\ storage \in InitStores
  /\ isUpdatingSpeed = FALSE
  /\ isApplyingNavigationSpeed = FALSE
  /\ isNavigating = FALSE
  /\ isExtensionInitialized = FALSE
  /\ lastRateChangeValue = 100
  /\ sinceRateChange = DedupWindow
  /\ listeners = <<>>
  /\ timers = <<Timer(InitialDelay, "waitInit", 0, FALSE)>>
  /\ overlay = 0
  /\ menuLabel = 100
  /\ menuEnhanced = FALSE
  /\ locationChanged = FALSE
  /\ events = 0
  /\ navs = 0
  /\ hostOther = FALSE
  /\ hostInSeek = FALSE
  /\ radioChecked = {}
  /\ modal = NoModal
  /\ speedMenu = HostSpeedMenu
  /\ sinceSettingsUpdate = Throttle
  /\ sincePassiveWrite = Throttle
  /\ last = [op |-> "load", key |-> "", speed |-> 0, rateBefore |-> 100,
             prefBefore |-> storage.preferred,
             rateWrites |-> 0, prefWrites |-> 0, shown |-> FALSE,
             editable |-> FALSE, nav |-> FALSE, origin |-> "",
             handled |-> FALSE, reassert |-> FALSE, prevOp |-> "",
             prevRateWrites |-> 0, labelGap |-> Throttle, shows |-> 0,
             reasserts |-> 0]

\* ------------------------------------------------------------------------
\* Host UI synchronizer and overlay
\* ------------------------------------------------------------------------
\* The flag is set on entry and cleared in the finally block, so a call
\* leaves it as it found it; a call made while it is set returns at once.
updateYouTubeSpeedSetting(flag, label, playbackRate) ==
  IF flag \/ label = NoLabel THEN label ELSE playbackRate

\* The radio entries updateYouTubeSpeedSetting touches are those whose label
\* contains 'x' or is 'Normal'; the augmented entries are labelled 'Normal'
\* (1x) or with the bare number
RadioUpdatable == {s \in Options : s = 100}

updateSpeedRadios(flag, enhanced, checked, playbackRate) ==
  IF flag \/ ~enhanced THEN checked
  ELSE (checked \ RadioUpdatable)
       \cup {s \in RadioUpdatable : s = playbackRate}

immediateUpdateSettingsMenu(label, playbackRate) ==
  IF label = NoLabel THEN label ELSE playbackRate

\* showCustomOverlay on the bundle m: the overlay's text is the rate
\* shown last (its fade-out after one second is not represented)
showCustomOverlay(m, r) ==
  [m EXCEPT !.overlay = r, !.shown = TRUE, !.shows = @ + 1]

Bundle ==
  [storage |-> storage, timers |-> timers, overlay |-> overlay,
   menuLabel |-> menuLabel, radios |-> radioChecked,
   lastVal |-> lastRateChangeValue,
   since |-> sinceRateChange, prefWrites |-> 0, shown |-> FALSE,
   handled |-> FALSE, reassert |-> FALSE, shows |-> 0, reasserts |-> 0]

\* ------------------------------------------------------------------------
\* The ratechange listener of one setupSpeedSynchronization closure
\* ------------------------------------------------------------------------
\* line 468: a duplicate within the deduplication window
isDuplicateNever(since, currentRate, lastValue) == FALSE

isDuplicate(since, currentRate, lastValue) ==
  since < DedupWindow /\ currentRate = lastValue

\* line 475: only user-initiated changes are candidates for saving
isUserInitiatedAnyRate(isSeeking, applying, currentRate) ==
  ~isSeeking /\ ~applying

isUserInitiated(isSeeking, applying, currentRate) ==
  ~isSeeking /\ ~applying /\ currentRate \in Options

\* line 482: the host reset the rate to 1x during a navigation
isNavigationReset(navigationMode, currentRate, savedSpeed, navigating) ==
  navigationMode = "continue" /\ currentRate = 100 /\ savedSpeed > 100
  /\ navigating

onRateChangeNoGuard(m, isSeeking) ==
  IF isDuplicate(m.since, rate, m.lastVal) THEN m
  ELSE
    LET m1 == [m EXCEPT !.since = 0, !.lastVal = rate, !.handled = TRUE]
        navigationMode == loadNavigationMode(m1.storage)
        savedSpeed == loadPreferredSpeed(m1.storage)
        m2 ==
          IF isUserInitiated(isSeeking, isApplyingNavigationSpeed, rate)
          THEN
            IF isNavigationReset(navigationMode, rate, savedSpeed,
                                 isNavigating)
            THEN showCustomOverlay(
                   [m1 EXCEPT !.timers = Schedule(@,
                      Timer(ReassertDelay, "navReassert", savedSpeed, FALSE)),
                              !.reassert = TRUE,
                              !.reasserts = @ + 1],
                   rate)
            ELSE IF ~isNavigating \/ rate # 100
            THEN showCustomOverlay(
                   [m1 EXCEPT !.storage = savePreferredSpeed(@, rate),
                              !.prefWrites = @ + 1],
                   rate)
            ELSE showCustomOverlay(m1, rate)
          ELSE IF ~isSeeking /\ ~isApplyingNavigationSpeed
          THEN showCustomOverlay(m1, rate)
          ELSE m1
    IN [m2 EXCEPT !.menuLabel = updateYouTubeSpeedSetting(FALSE, @, rate),
                  !.radios = updateSpeedRadios(FALSE, menuEnhanced, @, rate)]

onRateChange(m, isSeeking) ==
  IF isUpdatingSpeed THEN m ELSE onRateChangeNoGuard(m, isSeeking)

RECURSIVE RunListeners(_, _)
RunListeners(m, i) ==
  IF i > Len(listeners) THEN m
  ELSE RunListeners(onRateChange(m, listeners[i]), i + 1)


\* ------------------------------------------------------------------------
\* applyPreferredSpeed, initializeExtension, waitForVideoAndFullyInitialize
\* on the bundle a (fields rate, flag, applying, initialized, listeners,
\* timers, pending, rateWrites, target)
\* ------------------------------------------------------------------------
applyPreferredSpeed(a, isNavigation) ==
  LET targetSpeed == IF isNavigation THEN getNavigationSpeed(storage)
                     ELSE loadPreferredSpeed(storage)
  IN IF Abs(a.rate - targetSpeed) > Epsilon
     THEN [a EXCEPT !.flag = TRUE,
                    !.applying = IF isNavigation THEN TRUE ELSE @,
                    !.rate = targetSpeed,
                    !.pending = Append(@, "apply"),
                    !.rateWrites = @ + 1,
                    !.target = targetSpeed,
                    !.timers = Schedule(@, Timer(ApplySettle, "applyDone",
                                                 targetSpeed, isNavigation))]
     ELSE IF isNavigation /\ loadNavigationMode(storage) = "continue"
     THEN [a EXCEPT !.target = targetSpeed,
                    !.timers = Schedule(@, Timer(PersistDelay, "persist",
                                                 targetSpeed, FALSE))]
     ELSE [a EXCEPT !.target = targetSpeed]

\* setupSpeedSynchronization registers one more set of listeners on the
\* video, with its own isSeeking = false
initializeExtension(a, isNavigation) ==
  IF a.initialized THEN a
  ELSE LET a1 == applyPreferredSpeed([a EXCEPT !.initialized = TRUE],
                                     isNavigation)
       IN [a1 EXCEPT !.listeners = Append(@, FALSE)]

waitForVideoAndFullyInitialize(a, isNavigation) ==
  IF video = "ready"
  THEN LET a1 == initializeExtension(a, isNavigation)
       IN [a1 EXCEPT !.timers = Schedule(@, Timer(PostInitDelay,
                                   "postInitMenu", 0, isNavigation))]
  ELSE [a EXCEPT !.timers = Schedule(@, Timer(PollDelay, "waitInit",
                                              0, isNavigation))]

InitBundle(ts) ==
  [rate |-> rate, flag |-> isUpdatingSpeed,
   applying |-> isApplyingNavigationSpeed,
   initialized |-> isExtensionInitialized, listeners |-> listeners,
   timers |-> ts, pending |-> rcPending, rateWrites |-> 0, target |-> 0]

CommitInit(a) ==
  /\ rate' = a.rate
  /\ isUpdatingSpeed' = a.flag
  /\ isApplyingNavigationSpeed' = a.applying
  /\ isExtensionInitialized' = a.initialized
  /\ listeners' = a.listeners
  /\ timers' = a.timers
  /\ rcPending' = a.pending

Due(kind) == timers # <<>> /\ Head(timers).rem = 0 /\ Head(timers).kind = kind

\* ------------------------------------------------------------------------
\* Timer callbacks
\* ------------------------------------------------------------------------
\* setTimeout(waitForVideoAndFullyInitialize, 1000) and its 500 ms retries
WaitForVideo ==
  /\ Due("waitInit")
  /\ LET a == waitForVideoAndFullyInitialize(InitBundle(Tail(timers)),
                                             Head(timers).nav)
     IN /\ CommitInit(a)
        /\ last' = [Step("waitInit", "", a.target, a.rateWrites, 0, FALSE)
                      EXCEPT !.nav = Head(timers).nav]
  /\ UNCHANGED <<video, hostSeeking, storage, isNavigating,
                 lastRateChangeValue, sinceRateChange, overlay, menuLabel,
                 menuEnhanced, locationChanged, events, navs,
                 hostOther, hostInSeek,
                 radioChecked, modal,
                 speedMenu, sinceSettingsUpdate, sincePassiveWrite>>

\* the navigation observer's first timer: initialize for the new video and
\* arm the menu update
NavStart ==
  /\ Due("navStart")
  /\ LET a == waitForVideoAndFullyInitialize(InitBundle(Tail(timers)), TRUE)
         a1 == [a EXCEPT !.timers = Schedule(@, Timer(NavMenuDelay,
                                                "navMenu", 0, TRUE))]
     IN /\ CommitInit(a1)
        /\ last' = [Step("navStart", "", a.target, a.rateWrites, 0, FALSE)
                      EXCEPT !.nav = TRUE]
  /\ UNCHANGED <<video, hostSeeking, storage, isNavigating,
                 lastRateChangeValue, sinceRateChange, overlay, menuLabel,
                 menuEnhanced, locationChanged, events, navs,
                 hostOther, hostInSeek,
                 radioChecked, modal,
                 speedMenu, sinceSettingsUpdate, sincePassiveWrite>>

\* applyPreferredSpeed's 100 ms callback
ApplyDone ==
  /\ Due("applyDone")
  /\ LET t == Head(timers)
     IN /\ isUpdatingSpeed' = FALSE
        /\ isApplyingNavigationSpeed' =
             IF t.nav THEN FALSE ELSE isApplyingNavigationSpeed
        /\ timers' = IF t.nav /\ loadNavigationMode(storage) = "continue"
                     THEN Schedule(Tail(timers),
                            Timer(PersistDelay, "persist", t.speed, FALSE))
                     ELSE Tail(timers)
        /\ menuLabel' = updateYouTubeSpeedSetting(FALSE, menuLabel, t.speed)
        /\ radioChecked' = updateSpeedRadios(FALSE, menuEnhanced, radioChecked,
                                             t.speed)
        /\ last' = [Step("applyDone", "", t.speed, 0, 0, FALSE)
                      EXCEPT !.nav = t.nav]
  /\ UNCHANGED <<video, rate, hostSeeking, rcPending, storage, isNavigating,
                 isExtensionInitialized, lastRateChangeValue,
                 sinceRateChange, listeners, overlay, menuEnhanced,
                 locationChanged, events, navs,
                 hostOther, hostInSeek,
                 modal,
                 speedMenu, sinceSettingsUpdate, sincePassiveWrite>>

\* the deferred savePreferredSpeed(targetSpeed) of continue mode
Persist ==
  /\ Due("persist")
  /\ storage' = savePreferredSpeed(storage, Head(timers).speed)
  /\ timers' = Tail(timers)
  /\ last' = [Step("persist", "", Head(timers).speed, 0, 1, FALSE)
                EXCEPT !.prevOp = last.op,
                       !.prevRateWrites = last.rateWrites]
  /\ UNCHANGED <<video, rate, hostSeeking, rcPending, isUpdatingSpeed,
                 isApplyingNavigationSpeed, isNavigating,
                 isExtensionInitialized, lastRateChangeValue,
                 sinceRateChange, listeners, overlay, menuLabel,
                 menuEnhanced, locationChanged, events, navs,
                 hostOther, hostInSeek,
                 radioChecked, modal,
                 speedMenu, sinceSettingsUpdate, sincePassiveWrite>>

\* waitForVideoAndFullyInitialize's 2000 ms menu update
PostInitMenu ==
  /\ Due("postInitMenu")
  /\ LET targetSpeed == IF Head(timers).nav THEN getNavigationSpeed(storage)
                        ELSE loadPreferredSpeed(storage)
     IN /\ menuLabel' = IF targetSpeed # 100
                        THEN updateYouTubeSpeedSetting(isUpdatingSpeed,
                                                       menuLabel, targetSpeed)
                        ELSE menuLabel
        /\ radioChecked' = IF targetSpeed # 100
                           THEN updateSpeedRadios(isUpdatingSpeed,
                                  menuEnhanced, radioChecked, targetSpeed)
                           ELSE radioChecked
        /\ last' = Step("postInitMenu", "", targetSpeed, 0, 0, FALSE)
  /\ timers' = Tail(timers)
  /\ UNCHANGED <<video, rate, hostSeeking, rcPending, storage,
                 isUpdatingSpeed, isApplyingNavigationSpeed, isNavigating,
                 isExtensionInitialized, lastRateChangeValue,
                 sinceRateChange, listeners, overlay, menuEnhanced,
                 locationChanged, events, navs,
                 hostOther, hostInSeek,
                 modal,
                 speedMenu, sinceSettingsUpdate, sincePassiveWrite>>

\* the keydown handler's setTimeout(..., 0)
KeyMenu ==
  /\ Due("keyMenu")
  /\ menuLabel' = immediateUpdateSettingsMenu(
                    updateYouTubeSpeedSetting(isUpdatingSpeed, menuLabel,
                                              Head(timers).speed),
                    Head(timers).speed)
  /\ radioChecked' = updateSpeedRadios(isUpdatingSpeed, menuEnhanced,
                                       radioChecked, Head(timers).speed)
  /\ timers' = Tail(timers)
  /\ last' = Step("keyMenu", "", Head(timers).speed, 0, 0, FALSE)
  /\ UNCHANGED <<video, rate, hostSeeking, rcPending, storage,
                 isUpdatingSpeed, isApplyingNavigationSpeed, isNavigating,
                 isExtensionInitialized, lastRateChangeValue,
                 sinceRateChange, listeners, overlay, menuEnhanced,
                 locationChanged, events, navs,
                 hostOther, hostInSeek,
                 modal,
                 speedMenu, sinceSettingsUpdate, sincePassiveWrite>>

\* the augmented menu entry's setTimeout(..., 0)
ClickMenu ==
  /\ Due("clickMenu")
  /\ menuLabel' = updateYouTubeSpeedSetting(isUpdatingSpeed, menuLabel,
                                            Head(timers).speed)
  /\ radioChecked' = updateSpeedRadios(isUpdatingSpeed, menuEnhanced,
                                       radioChecked, Head(timers).speed)
  /\ timers' = Tail(timers)
  /\ last' = Step("clickMenu", "", Head(timers).speed, 0, 0, FALSE)
  /\ UNCHANGED <<video, rate, hostSeeking, rcPending, storage,
                 isUpdatingSpeed, isApplyingNavigationSpeed, isNavigating,
                 isExtensionInitialized, lastRateChangeValue,
                 sinceRateChange, listeners, overlay, menuEnhanced,
                 locationChanged, events, navs,
                 hostOther, hostInSeek,
                 modal,
                 speedMenu, sinceSettingsUpdate, sincePassiveWrite>>


\* the seeked listener's 100 ms callback
seekRecoverNever(preferredSpeed, currentSpeed) == FALSE

seekRecoverNeeded(preferredSpeed, currentSpeed) ==
  preferredSpeed # 100 /\ Abs(currentSpeed - preferredSpeed) > Epsilon

SeekRecover ==
  /\ Due("seekRecover")
  /\ LET preferredSpeed == loadPreferredSpeed(storage)
     IN IF seekRecoverNeeded(preferredSpeed, rate)
        THEN /\ isUpdatingSpeed' = TRUE
             /\ rate' = preferredSpeed
             /\ rcPending' = Append(rcPending, "seek")
             /\ timers' = Schedule(Tail(timers),
                            Timer(SeekSettle, "seekDone", preferredSpeed, FALSE))
             /\ last' = Step("seekRecover", "", preferredSpeed, 1, 0, FALSE)
        ELSE /\ timers' = Tail(timers)
             /\ last' = Step("seekRecover", "", preferredSpeed, 0, 0, FALSE)
             /\ UNCHANGED <<isUpdatingSpeed, rate, rcPending>>
  /\ UNCHANGED <<video, hostSeeking, storage, isApplyingNavigationSpeed,
                 isNavigating, isExtensionInitialized, lastRateChangeValue,
                 sinceRateChange, listeners, overlay, menuLabel,
                 menuEnhanced, locationChanged, events, navs,
                 hostOther, hostInSeek,
                 radioChecked, modal,
                 speedMenu, sinceSettingsUpdate, sincePassiveWrite>>

SeekDone ==
  /\ Due("seekDone")
  /\ isUpdatingSpeed' = FALSE
  /\ menuLabel' = updateYouTubeSpeedSetting(FALSE, menuLabel,
                                            Head(timers).speed)
  /\ radioChecked' = updateSpeedRadios(FALSE, menuEnhanced, radioChecked,
                                       Head(timers).speed)
  /\ timers' = Tail(timers)
  /\ last' = Step("seekDone", "", Head(timers).speed, 0, 0, FALSE)
  /\ UNCHANGED <<video, rate, hostSeeking, rcPending, storage,
                 isApplyingNavigationSpeed, isNavigating,
                 isExtensionInitialized, lastRateChangeValue,
                 sinceRateChange, listeners, overlay, menuEnhanced,
                 locationChanged, events, navs,
                 hostOther, hostInSeek,
                 modal,
                 speedMenu, sinceSettingsUpdate, sincePassiveWrite>>

\* the ratechange listener's 500 ms re-assertion of the saved speed
NavReassert ==
  /\ Due("navReassert")
  /\ LET savedSpeed == Head(timers).speed
     IN IF rate = 100
        THEN /\ isUpdatingSpeed' = TRUE
             /\ rate' = savedSpeed
             /\ rcPending' = Append(rcPending, "reassert")
             /\ timers' = Schedule(Tail(timers),
                            Timer(ReassertSettle, "reassertDone",
                                  savedSpeed, FALSE))
             /\ last' = Step("navReassert", "", savedSpeed, 1, 0, FALSE)
        ELSE /\ timers' = Tail(timers)
             /\ last' = Step("navReassert", "", savedSpeed, 0, 0, FALSE)
             /\ UNCHANGED <<isUpdatingSpeed, rate, rcPending>>
  /\ UNCHANGED <<video, hostSeeking, storage, isApplyingNavigationSpeed,
                 isNavigating, isExtensionInitialized, lastRateChangeValue,
                 sinceRateChange, listeners, overlay, menuLabel,
                 menuEnhanced, locationChanged, events, navs,
                 hostOther, hostInSeek,
                 radioChecked, modal,
                 speedMenu, sinceSettingsUpdate, sincePassiveWrite>>

ReassertDone ==
  /\ Due("reassertDone")
  /\ isUpdatingSpeed' = FALSE
  /\ menuLabel' = updateYouTubeSpeedSetting(FALSE, menuLabel,
                                            Head(timers).speed)
  /\ radioChecked' = updateSpeedRadios(FALSE, menuEnhanced, radioChecked,
                                       Head(timers).speed)
  /\ timers' = Tail(timers)
  /\ last' = Step("reassertDone", "", Head(timers).speed, 0, 0, FALSE)
  /\ UNCHANGED <<video, rate, hostSeeking, rcPending, storage,
                 isApplyingNavigationSpeed, isNavigating,
                 isExtensionInitialized, lastRateChangeValue,
                 sinceRateChange, listeners, overlay, menuEnhanced,
                 locationChanged, events, navs,
                 hostOther, hostInSeek,
                 modal,
                 speedMenu, sinceSettingsUpdate, sincePassiveWrite>>

\* the navigation observer's menu update, 2000 ms after its first timer
NavMenu ==
  /\ Due("navMenu")
  /\ menuLabel' = updateYouTubeSpeedSetting(isUpdatingSpeed, menuLabel,
                                            getNavigationSpeed(storage))
  /\ radioChecked' = updateSpeedRadios(isUpdatingSpeed, menuEnhanced,
                                       radioChecked,
                                       getNavigationSpeed(storage))
  /\ timers' = Schedule(Tail(timers),
                        Timer(NavClearDelay, "navClear", 0, TRUE))
  /\ last' = Step("navMenu", "", getNavigationSpeed(storage), 0, 0, FALSE)
  /\ UNCHANGED <<video, rate, hostSeeking, rcPending, storage,
                 isUpdatingSpeed, isApplyingNavigationSpeed, isNavigating,
                 isExtensionInitialized, lastRateChangeValue,
                 sinceRateChange, listeners, overlay, menuEnhanced,
                 locationChanged, events, navs,
                 hostOther, hostInSeek,
                 modal,
                 speedMenu, sinceSettingsUpdate, sincePassiveWrite>>

NavClear ==
  /\ Due("navClear")
  /\ isNavigating' = FALSE
  /\ timers' = Tail(timers)
  /\ last' = Step("navClear", "", getNavigationSpeed(storage), 0, 0, FALSE)
  /\ UNCHANGED <<video, rate, hostSeeking, rcPending, storage,
                 isUpdatingSpeed, isApplyingNavigationSpeed,
                 isExtensionInitialized, lastRateChangeValue,
                 sinceRateChange, listeners, overlay, menuLabel,
                 menuEnhanced, locationChanged, events, navs,
                 hostOther, hostInSeek,
                 radioChecked, modal,
                 speedMenu, sinceSettingsUpdate, sincePassiveWrite>>

\* ------------------------------------------------------------------------
\* DOM event handlers
\* ------------------------------------------------------------------------
\* 1-based step over speedOptions, clamped at both ends
stepIndexWrapping(currentIndex, up) ==
  IF up THEN (currentIndex % Len(speedOptions)) + 1
  ELSE IF currentIndex = 1 THEN Len(speedOptions) ELSE currentIndex - 1

stepIndex(currentIndex, up) ==
  IF up THEN Min(currentIndex + 1, Len(speedOptions))
  ELSE Max(currentIndex - 1, 1)

keyChangesRateAlways(newIndex, currentIndex) == TRUE

keyChangesRate(newIndex, currentIndex) == newIndex # currentIndex

\* document keydown listener; editable: the target is an input, a
\* textarea or content-editable
KeyDown(k, editable) ==
  /\ events < MaxEvents
  /\ Len(rcPending) < MaxPending
  /\ events' = events + 1
  /\ LET increaseKey == loadIncreaseSpeedKey(storage)
         decreaseKey == loadDecreaseSpeedKey(storage)
         currentIndex == getClosestSpeedIndex(rate)
         newIndex == stepIndex(currentIndex, k = increaseKey)
         newRate == speedOptions[newIndex]
         m == showCustomOverlay(Bundle, newRate)
     IN IF editable \/ (k # increaseKey /\ k # decreaseKey) \/ video = "none"
        THEN /\ last' = [Step("keydown", k, 0, 0, 0, FALSE)
                           EXCEPT !.editable = editable]
             /\ UNCHANGED <<rate, rcPending, storage, isUpdatingSpeed,
                            timers, overlay>>
        ELSE IF keyChangesRate(newIndex, currentIndex)
        THEN /\ isUpdatingSpeed' = TRUE
             /\ rate' = newRate
             /\ rcPending' = IF newRate # rate THEN Append(rcPending, "key")
                             ELSE rcPending
             /\ storage' = saveKeyboardSpeed(storage, newRate)
             /\ timers' = Schedule(m.timers, Timer(0, "keyMenu", newRate, FALSE))
             /\ overlay' = m.overlay
             /\ last' = Step("keydown", k, newRate, 1, 1, TRUE)
        ELSE /\ timers' = m.timers
             /\ overlay' = m.overlay
             /\ last' = Step("keydown", k, newRate, 0, 0, TRUE)
             /\ UNCHANGED <<rate, rcPending, storage, isUpdatingSpeed>>
  /\ UNCHANGED <<video, hostSeeking, isApplyingNavigationSpeed, isNavigating,
                 isExtensionInitialized, lastRateChangeValue,
                 sinceRateChange, listeners, menuLabel, menuEnhanced,
                 locationChanged, navs,
                 hostOther, hostInSeek,
                 radioChecked, modal,
                 speedMenu, sinceSettingsUpdate, sincePassiveWrite>>

\* click on an entry of the augmented speed menu
MenuClick(speed) ==
  /\ menuEnhanced
  /\ events < MaxEvents
  /\ Len(rcPending) < MaxPending
  /\ events' = events + 1
  /\ LET m == showCustomOverlay(Bundle, speed)
     IN /\ isUpdatingSpeed' = TRUE
        /\ rate' = speed
        /\ rcPending' = IF speed # rate THEN Append(rcPending, "click")
                        ELSE rcPending
        /\ storage' = savePreferredSpeed(storage, speed)
        /\ timers' = Schedule(m.timers, Timer(0, "clickMenu", speed, FALSE))
        /\ overlay' = m.overlay
        /\ last' = Step("click", "", speed, 1, 1, TRUE)
  /\ UNCHANGED <<video, hostSeeking, isApplyingNavigationSpeed, isNavigating,
                 isExtensionInitialized, lastRateChangeValue,
                 sinceRateChange, listeners, menuLabel, menuEnhanced,
                 locationChanged, navs,
                 hostOther, hostInSeek,
                 radioChecked, modal,
                 speedMenu, sinceSettingsUpdate, sincePassiveWrite>>


\* the video's ratechange event: every registered listener runs in turn
RateChange ==
  /\ rcPending # <<>>
  /\ rcPending' = Tail(rcPending)
  /\ LET m == RunListeners(Bundle, 1)
     IN /\ storage' = m.storage
        /\ timers' = m.timers
        /\ overlay' = m.overlay
        /\ menuLabel' = m.menuLabel
        /\ radioChecked' = m.radios
        /\ lastRateChangeValue' = m.lastVal
        /\ sinceRateChange' = m.since
        /\ last' = [Step("ratechange", "", rate, 0, m.prefWrites, m.shown)
                      EXCEPT !.origin = Head(rcPending),
                             !.handled = m.handled,
                             !.reassert = m.reassert,
                             !.shows = m.shows,
                             !.reasserts = m.reasserts,
                             !.prevOp = last.op,
                             !.prevRateWrites = last.rateWrites]
  /\ UNCHANGED <<video, rate, hostSeeking, isUpdatingSpeed,
                 isApplyingNavigationSpeed, isNavigating,
                 isExtensionInitialized, listeners, menuEnhanced,
                 locationChanged, events, navs,
                 hostOther, hostInSeek,
                 modal,
                 speedMenu, sinceSettingsUpdate, sincePassiveWrite>>

\* the video's seeking event
Seeking ==
  /\ video = "ready"
  /\ ~hostSeeking
  /\ events < MaxEvents
  /\ events' = events + 1
  /\ hostSeeking' = TRUE
  /\ listeners' = [i \in 1..Len(listeners) |-> TRUE]
  /\ hostInSeek' = FALSE
  /\ last' = Step("seeking", "", 0, 0, 0, FALSE)
  /\ UNCHANGED <<video, rate, rcPending, storage, isUpdatingSpeed,
                 isApplyingNavigationSpeed, isNavigating,
                 isExtensionInitialized, lastRateChangeValue,
                 sinceRateChange, timers, overlay, menuLabel, menuEnhanced,
                 locationChanged, navs,
                 hostOther,
                 radioChecked, modal,
                 speedMenu, sinceSettingsUpdate, sincePassiveWrite>>

RECURSIVE ScheduleN(_, _, _)
ScheduleN(ts, t, n) ==
  IF n = 0 THEN ts ELSE ScheduleN(Schedule(ts, t), t, n - 1)

\* the video's seeked event: every listener arms its re-apply timer
Seeked ==
  /\ hostSeeking
  /\ hostSeeking' = FALSE
  /\ listeners' = [i \in 1..Len(listeners) |-> FALSE]
  /\ timers' = ScheduleN(timers, Timer(SeekDelay, "seekRecover", 0, FALSE),
                         Len(listeners))
  /\ last' = Step("seeked", "", 0, 0, 0, FALSE)
  /\ UNCHANGED <<video, rate, rcPending, storage, isUpdatingSpeed,
                 isApplyingNavigationSpeed, isNavigating,
                 isExtensionInitialized, lastRateChangeValue,
                 sinceRateChange, overlay, menuLabel, menuEnhanced,
                 locationChanged, events, navs,
                 hostOther, hostInSeek,
                 radioChecked, modal,
                 speedMenu, sinceSettingsUpdate, sincePassiveWrite>>

\* the observer that never records the location it has seen
recordLocationSkipped(changed) == changed

\* line 921, currentUrl = location.href: the location no longer differs
\* from the one seen last
recordLocation(changed) == FALSE

\* autoApplyObserver: a mutation batch on document.body
AutoApplyObserver ==
  /\ IF locationChanged
     THEN /\ locationChanged' = recordLocation(locationChanged)
          /\ isNavigating' = TRUE
          /\ isExtensionInitialized' = FALSE
          /\ timers' = Schedule(timers, Timer(NavStartDelay, "navStart", 0, TRUE))
          /\ UNCHANGED events
     ELSE /\ events < MaxEvents
          /\ events' = events + 1
          /\ UNCHANGED <<locationChanged, isNavigating,
                         isExtensionInitialized, timers>>
  /\ last' = [Step("mutation", "", 0, 0, 0, FALSE)
                EXCEPT !.nav = locationChanged]
  /\ UNCHANGED <<video, rate, hostSeeking, rcPending, storage,
                 isUpdatingSpeed, isApplyingNavigationSpeed,
                 lastRateChangeValue, sinceRateChange, listeners, overlay,
                 menuLabel, menuEnhanced, navs,
                 hostOther, hostInSeek,
                 radioChecked, modal,
                 speedMenu, sinceSettingsUpdate, sincePassiveWrite>>

\* line 613 (and 514, 529): speedMenu.querySelector('.yt-speed-ext-enhanced')
\* looks for a descendant of the menu carrying the marker class
alreadyEnhanced(menu) == menu.enhancedItems > 0

\* enhanceSpeedMenu: the marker class goes on the menu node itself (619);
\* the entries removed are those whose label contains 'x' (624), which the
\* appended entries ('Normal' or the bare number, class 'ytp-menuitem')
\* are not; one entry per table speed is appended (633-664)
enhanceSpeedMenu(menu) ==
  IF alreadyEnhanced(menu) THEN menu
  ELSE [menu EXCEPT !.marked = TRUE, !.copies = @ + 1]

\* aria-checked of the entries after enhanceSpeedMenu: updateSpeedMenuSelection
\* on a menu found enhanced, else the new entries' attribute (637) beside
\* the entries already there
enhanceRadios(menu, checked, currentRate) ==
  IF alreadyEnhanced(menu) THEN {s \in Options : s = currentRate}
  ELSE checked \cup {s \in Options : s = currentRate}

\* every setupSpeedSynchronization has registered its own settingsObserver:
\* n observers see the same mutation batch
RECURSIVE EnhanceN(_, _)
EnhanceN(menu, n) ==
  IF n = 0 THEN menu ELSE EnhanceN(enhanceSpeedMenu(menu), n - 1)

\* settingsObserver sees the host's speed menu while the settings menu is
\* hidden: enhanceSpeedMenu
EnhanceSpeedMenu ==
  /\ Len(listeners) > 0
  /\ menuLabel # NoLabel
  /\ events < MaxEvents
  /\ events' = events + 1
  /\ speedMenu' = EnhanceN(speedMenu, Len(listeners))
  /\ menuEnhanced' = (speedMenu'.copies > 0)
  /\ radioChecked' = enhanceRadios(speedMenu, radioChecked, rate)
  /\ last' = Step("enhance", "", 0, 0, 0, FALSE)
  /\ UNCHANGED <<video, rate, hostSeeking, rcPending, storage,
                 isUpdatingSpeed, isApplyingNavigationSpeed, isNavigating,
                 isExtensionInitialized, lastRateChangeValue,
                 sinceRateChange, listeners, timers, overlay, menuLabel,
                 locationChanged, navs,
                 hostOther, hostInSeek,
                 modal,
                 sinceSettingsUpdate, sincePassiveWrite>>

\* ------------------------------------------------------------------------
\* The host page and the passage of time
\* ------------------------------------------------------------------------
\* the host player (or the user, through the native menu) sets the rate
HostSetRate(r) ==
  /\ video # "none"
  /\ r # rate
  /\ events < MaxEvents
  /\ Len(rcPending) < MaxPending
  /\ events' = events + 1
  /\ rate' = r
  /\ rcPending' = Append(rcPending, "host")
  /\ hostOther' = (hostOther \/ r # 100)
  /\ hostInSeek' = TRUE
  /\ last' = Step("host", "", r, 0, 0, FALSE)
  /\ UNCHANGED <<video, hostSeeking, storage, isUpdatingSpeed,
                 isApplyingNavigationSpeed, isNavigating,
                 isExtensionInitialized, lastRateChangeValue,
                 sinceRateChange, listeners, timers, overlay, menuLabel,
                 menuEnhanced, locationChanged, navs,
                 radioChecked, modal,
                 speedMenu, sinceSettingsUpdate, sincePassiveWrite>>

\* the single-page application moves to another video
HostNavigate(reload) ==
  /\ navs < MaxNav
  /\ events < MaxEvents
  /\ ~locationChanged
  /\ reload => video = "ready"
  /\ navs' = navs + 1
  /\ events' = events + 1
  /\ locationChanged' = TRUE
  /\ video' = IF reload THEN "loading" ELSE video
  /\ last' = Step("navigate", "", 0, 0, 0, FALSE)
  /\ UNCHANGED <<rate, hostSeeking, rcPending, storage, isUpdatingSpeed,
                 isApplyingNavigationSpeed, isNavigating,
                 isExtensionInitialized, lastRateChangeValue,
                 sinceRateChange, listeners, timers, overlay, menuLabel,
                 menuEnhanced, hostOther, hostInSeek,
                 radioChecked, modal,
                 speedMenu, sinceSettingsUpdate, sincePassiveWrite>>

VideoAppears ==
  /\ video = "none"
  /\ video' = "loading"
  /\ last' = Step("videoAppears", "", 0, 0, 0, FALSE)
  /\ UNCHANGED <<rate, hostSeeking, rcPending, storage, isUpdatingSpeed,
                 isApplyingNavigationSpeed, isNavigating,
                 isExtensionInitialized, lastRateChangeValue,
                 sinceRateChange, listeners, timers, overlay, menuLabel,
                 menuEnhanced, locationChanged, events, navs,
                 hostOther, hostInSeek,
                 radioChecked, modal,
                 speedMenu, sinceSettingsUpdate, sincePassiveWrite>>

VideoLoaded ==
  /\ video = "loading"
  /\ video' = "ready"
  /\ last' = Step("videoLoaded", "", 0, 0, 0, FALSE)
  /\ UNCHANGED <<rate, hostSeeking, rcPending, storage, isUpdatingSpeed,
                 isApplyingNavigationSpeed, isNavigating,
                 isExtensionInitialized, lastRateChangeValue,
                 sinceRateChange, listeners, timers, overlay, menuLabel,
                 menuEnhanced, locationChanged, events, navs,
                 hostOther, hostInSeek,
                 radioChecked, modal,
                 speedMenu, sinceSettingsUpdate, sincePassiveWrite>>

\* Time passes up to the next timer, or to the end of the deduplication
\* window or of the throttle window when that comes first (d is drawn
\* from NextInstants).  Queued notifications and observed
\* mutations are delivered before time moves on.
Advance(d) ==
  /\ rcPending = <<>>
  /\ ~locationChanged
  /\ d > 0
  /\ timers # <<>> => d <= Head(timers).rem
  /\ timers' = Elapse(timers, d)
  /\ sinceRateChange' = Min(sinceRateChange + d, DedupWindow)
  /\ sinceSettingsUpdate' = Min(sinceSettingsUpdate + d, Throttle)
  /\ sincePassiveWrite' = Min(sincePassiveWrite + d, Throttle)
  /\ last' = Step("advance", "", 0, 0, 0, FALSE)
  /\ UNCHANGED <<video, rate, hostSeeking, rcPending, storage,
                 isUpdatingSpeed, isApplyingNavigationSpeed, isNavigating,
                 isExtensionInitialized, lastRateChangeValue, listeners,
                 overlay, menuLabel, menuEnhanced, locationChanged, events,
                 navs,
                 hostOther, hostInSeek,
                 radioChecked, modal, speedMenu>>

\* the instants at which something can happen next
NextInstants ==
  (IF timers # <<>> THEN {Head(timers).rem} ELSE {})
  \cup (IF sinceRateChange < DedupWindow
        THEN {DedupWindow - sinceRateChange} ELSE {})
  \cup (IF sinceSettingsUpdate < Throttle
        THEN {Throttle - sinceSettingsUpdate} ELSE {})

Next ==
  \/ WaitForVideo
  \/ NavStart
  \/ ApplyDone
  \/ Persist
  \/ PostInitMenu
  \/ KeyMenu
  \/ ClickMenu
  \/ SeekRecover
  \/ SeekDone
  \/ NavReassert
  \/ ReassertDone
  \/ NavMenu
  \/ NavClear
  \/ \E kp \in KeyPresses : KeyDown(kp[1], kp[2])
  \/ \E speed \in ClickSpeeds : MenuClick(speed)
  \/ RateChange
  \/ Seeking
  \/ Seeked
  \/ AutoApplyObserver
  \/ EnhanceSpeedMenu
  \/ \E r \in HostRates : HostSetRate(r)
  \/ \E reload \in BOOLEAN : HostNavigate(reload)
  \/ VideoAppears
  \/ VideoLoaded
  \/ \E d \in NextInstants : Advance(d)

Spec == Init /\ [][Next]_vars

\* ------------------------------------------------------------------------
\* Properties
\* ------------------------------------------------------------------------
\* C1: when a configured key press or a click on an augmented menu entry
\* has written a new rate and the resulting ratechange event is delivered
\* immediately afterwards, the ratechange listeners write neither
\* preferredSpeed nor the media rate, and arm no re-assertion: the event
\* is dropped at the isUpdatingSpeed guard.
C1_NoFeedbackLoop ==
  (/\ last.op = "ratechange"
   /\ last.origin \in {"key", "click"}
   /\ last.prevOp \in {"keydown", "click"}
   /\ last.prevRateWrites > 0)
  => (/\ last.prefWrites = 0
      /\ last.rateWrites = 0
      /\ storage.preferred = last.prefBefore
      /\ storage.preferred = rate
      /\ ~last.handled
      /\ ~last.reassert)

C1_Witness ==
  /\ last.op = "ratechange"
  /\ last.origin = "key"
  /\ last.prevOp = "keydown"
  /\ last.prevRateWrites = 1
  /\ Len(listeners) > 0
  /\ rate = 150
  /\ storage.preferred = 150

\* C2: with a video present, the key-press target not text-editable and
\* the media rate equal to table entry i, the increase key with i below
\* the last index sets the rate to entry i+1 and stores it as
\* preferredSpeed, the decrease key with i above the first index does the
\* same with entry i-1, and the rate never wraps round the table.
C2_KeyStep ==
  (/\ last.op = "keydown"
   /\ ~last.editable
   /\ video # "none"
   /\ last.rateBefore \in Options)
  => LET i == CHOOSE j \in 1..Len(speedOptions) :
                 speedOptions[j] = last.rateBefore
     IN /\ (last.key = loadIncreaseSpeedKey(storage) /\ i < Len(speedOptions))
             => (/\ rate = speedOptions[i + 1]
                 /\ storage.preferred = speedOptions[i + 1]
                 /\ loadPreferredSpeed(storage) = speedOptions[i + 1])
        /\ (last.key = loadDecreaseSpeedKey(storage) /\ i > 1)
             => (/\ rate = speedOptions[i - 1]
                 /\ storage.preferred = speedOptions[i - 1]
                 /\ loadPreferredSpeed(storage) = speedOptions[i - 1])
        /\ last.key = loadIncreaseSpeedKey(storage) => rate >= last.rateBefore
        /\ last.key = loadDecreaseSpeedKey(storage) => rate <= last.rateBefore

C2_Witness ==
  /\ last.op = "keydown"
  /\ last.key = "."
  /\ ~last.editable
  /\ last.rateBefore = 100
  /\ rate = 150
  /\ storage.preferred = 150

C4_RateAtNavigationEnd ==
  (/\ last.op = "navClear"
   /\ isExtensionInitialized
   /\ Len(listeners) >= 2
   /\ storage.keyboard = NoItem
   /\ ~menuEnhanced
   /\ ~hostOther
   /\ ~hostSeeking
   /\ rcPending = <<>>
   /\ \A i \in 1..Len(timers) :
        timers[i].kind \notin {"navReassert", "seekRecover", "waitInit",
                               "navStart"})
  => Abs(rate - getNavigationSpeed(storage)) <= Epsilon

\* C5: in continue mode with a stored preferredSpeed p above 1x, a host
\* ratechange event reporting 1x that is delivered while isNavigating is
\* set, after the extension initialized for the navigation and with no
\* seek in progress and no other recovery pending, leaves preferredSpeed
\* at p and arms the re-assertion that sets the rate back to p.
C5_ResetReasserted ==
  (/\ last.op = "ratechange"
   /\ last.origin = "host"
   /\ rate = 100
   /\ isNavigating
   /\ isExtensionInitialized
   /\ ~hostSeeking
   /\ loadNavigationMode(storage) = "continue"
   /\ last.prefBefore \in Options
   /\ last.prefBefore > 100
   /\ \A i \in 1..Len(timers) :
        timers[i].kind \notin {"waitInit", "navStart", "seekRecover"}
        /\ (timers[i].kind = "navReassert" => last.reassert))
  => (/\ storage.preferred = last.prefBefore
      /\ \E i \in 1..Len(timers) :
           timers[i].kind = "navReassert" /\ timers[i].speed = last.prefBefore)

\* C6: a ratechange event delivered between the video's seeking and seeked
\* events never changes the stored preferredSpeed, whatever rate it
\* reports.
C6_SeekKeepsPreference ==
  (last.op = "ratechange" /\ hostSeeking)
  => storage.preferred = last.prefBefore

\* C7 (as stated): when the seeked listener's timer runs and the media
\* rate differs from the stored preferredSpeed by more than epsilon, the
\* rate is set back to preferredSpeed, for every table value of
\* preferredSpeed.
C7_SeekRecoveryAnyPreference ==
  (/\ last.op = "seekRecover"
   /\ Abs(last.rateBefore - loadPreferredSpeed(storage)) > Epsilon)
  => (rate = loadPreferredSpeed(storage) /\ last.rateWrites = 1)

\* C7 (amended): when the seeked listener's timer runs and the media rate
\* differs from the stored preferredSpeed by more than epsilon, the rate
\* is set back to preferredSpeed for every table value of preferredSpeed
\* other than 1x; with preferredSpeed 1x the rate is left as it is.
C7_SeekRecovery ==
  (/\ last.op = "seekRecover"
   /\ Abs(last.rateBefore - loadPreferredSpeed(storage)) > Epsilon)
  => IF loadPreferredSpeed(storage) # 100
     THEN rate = loadPreferredSpeed(storage) /\ last.rateWrites = 1
     ELSE rate = last.rateBefore /\ last.rateWrites = 0

C7_Witness ==
  /\ last.op = "seekRecover"
  /\ loadPreferredSpeed(storage) = 500
  /\ last.rateBefore = 100
  /\ last.rateWrites = 1
  /\ rate = 500

\* C8: the increase key pressed while the media rate is the table maximum,
\* and the decrease key pressed at the table minimum, leave the media rate
\* and the stored preferredSpeed unchanged and show the overlay with that
\* boundary value.
C8_BoundaryKey ==
  (/\ last.op = "keydown"
   /\ ~last.editable
   /\ video # "none"
   /\ \/ /\ last.key = loadIncreaseSpeedKey(storage)
         /\ last.rateBefore = speedOptions[Len(speedOptions)]
      \/ /\ last.key = loadDecreaseSpeedKey(storage)
         /\ last.rateBefore = speedOptions[1])
  => (/\ rate = last.rateBefore
      /\ last.rateWrites = 0
      /\ last.prefWrites = 0
      /\ storage.preferred = last.prefBefore
      /\ last.shown
      /\ overlay = last.rateBefore)

C8_Witness ==
  /\ last.op = "keydown"
  /\ last.key = "."
  /\ ~last.editable
  /\ last.rateBefore = 500
  /\ rate = 500
  /\ overlay = 500

\* C9: every rate the controller writes (key step, augmented-menu click,
\* initial and navigation apply, seek recovery, navigation re-assertion)
\* is a table entry, so as long as the host has set no rate other than 1x
\* the media rate is a table entry.
C9_TableMembership ==
  /\ last.rateWrites > 0 => rate \in Options
  /\ ~hostOther => rate \in Options

C9_Witness ==
  /\ ~hostOther
  /\ last.op = "seekRecover"
  /\ last.rateWrites = 1
  /\ rate = 500

\* C10: a rate command (key step, augmented-menu click, initial or
\* navigation apply, seek recovery) whose target is within epsilon of the
\* current media rate never writes the rate to the media element.
C10_Idempotent ==
  (/\ last.op \in {"keydown", "click", "waitInit", "navStart", "seekRecover"}
   /\ last.speed # 0
   /\ Abs(last.rateBefore - last.speed) <= Epsilon)
  => last.rateWrites = 0

\* ------------------------------------------------------------------------
\* Preference store at the level of localStorage: every value is stored as
\* text. A speed is written with Number.prototype.toString and read back
\* with parseFloat; a text is a sequence of one-character strings. Modes
\* and keys are stored as the strings they are.
\* ------------------------------------------------------------------------
DigitChars == <<"0", "1", "2", "3", "4", "5", "6", "7", "8", "9">>

DigitChar(d) == DigitChars[d + 1]

IsDigit(c) == \E d \in 0..9 : DigitChar(d) = c

DigitValue(c) == CHOOSE d \in 0..9 : DigitChar(d) = c

RECURSIVE IntDigits(_)
IntDigits(k) ==
  IF k < 10 THEN <<DigitChar(k)>>
  ELSE IntDigits(k \div 10) \o <<DigitChar(k % 10)>>

\* speed.toString() without the fraction: 1.5 becomes "1"
numberToStringInteger(n) == IntDigits(n \div 100)

\* speed.toString() of a non-negative speed given in hundredths: the
\* shortest decimal text, "1", "1.5", "0.25"
numberToString(n) ==
  IntDigits(n \div 100) \o
  (IF n % 100 = 0 THEN <<>>
   ELSE <<".", DigitChar((n % 100) \div 10)>> \o
        (IF n % 10 = 0 THEN <<>> ELSE <<DigitChar(n % 10)>>))

RECURSIVE SkipSpaces(_)
SkipSpaces(t) ==
  IF t # <<>> /\ Head(t) = " " THEN SkipSpaces(Tail(t)) ELSE t

RECURSIVE TakeDigits(_)
TakeDigits(t) ==
  IF t # <<>> /\ IsDigit(Head(t)) THEN <<Head(t)>> \o TakeDigits(Tail(t))
  ELSE <<>>

RECURSIVE DigitsValue(_)
DigitsValue(ds) ==
  IF ds = <<>> THEN 0
  ELSE DigitsValue(SubSeq(ds, 1, Len(ds) - 1)) * 10 + DigitValue(ds[Len(ds)])

\* parseFloat(text) for texts over digits, ".", "+", "-", " " and letters
\* other than an exponent: leading blanks are skipped, then an optional
\* sign, digits, an optional "." and digits are read and the rest of the
\* text is ignored. nan: no digit was read. val: the value in hundredths,
\* exact unless a fraction digit after the second is not 0.
parseFloat(text) ==
  LET t1 == SkipSpaces(text)
      signed == t1 # <<>> /\ Head(t1) \in {"+", "-"}
      negative == t1 # <<>> /\ Head(t1) = "-"
      t2 == IF signed THEN Tail(t1) ELSE t1
      whole == TakeDigits(t2)
      t3 == SubSeq(t2, Len(whole) + 1, Len(t2))
      frac == IF t3 # <<>> /\ Head(t3) = "." THEN TakeDigits(Tail(t3))
              ELSE <<>>
      tenths == IF Len(frac) >= 1 THEN DigitValue(frac[1]) ELSE 0
      hundredths == IF Len(frac) >= 2 THEN DigitValue(frac[2]) ELSE 0
      magnitude == DigitsValue(whole) * 100 + tenths * 10 + hundredths
  IN [nan |-> whole = <<>> /\ frac = <<>>,
      exact |-> \A i \in 3..Len(frac) : frac[i] = "0",
      val |-> IF negative THEN -magnitude ELSE magnitude]

\* speedOptions.includes(parseFloat(text))
includesParsed(text) ==
  LET speed == parseFloat(text)
  IN ~speed.nan /\ speed.exact /\ speed.val \in Options

\* localStorage of the page: present holds the items that exist, broken
\* means that every access to localStorage throws
TextStore(present, preferred, keyboard, navMode, custom, incKey, decKey, broken) ==
  [present |-> present, preferred |-> preferred, keyboard |-> keyboard,
   navMode |-> navMode, custom |-> custom, incKey |-> incKey,
   decKey |-> decKey, broken |-> broken]

savePreferredSpeedText(st, speed) ==
  IF st.broken THEN st
  ELSE [st EXCEPT !.present = @ \cup {"preferred"},
                  !.preferred = numberToString(speed)]

loadPreferredSpeedText(st) ==
  IF /\ ~st.broken
     /\ "preferred" \in st.present
     /\ st.preferred # <<>>
     /\ includesParsed(st.preferred)
  THEN parseFloat(st.preferred).val
  ELSE 100

saveNavigationModeText(st, mode) ==
  IF st.broken \/ mode \notin NAVIGATION_MODES THEN st
  ELSE [st EXCEPT !.present = @ \cup {"navMode"}, !.navMode = mode]

loadNavigationModeText(st) ==
  IF /\ ~st.broken
     /\ "navMode" \in st.present
     /\ st.navMode # ""
     /\ st.navMode \in NAVIGATION_MODES
  THEN st.navMode
  ELSE "continue"

saveCustomNavigationSpeedText(st, speed) ==
  IF st.broken \/ speed \notin Options THEN st
  ELSE [st EXCEPT !.present = @ \cup {"custom"},
                  !.custom = numberToString(speed)]

loadCustomNavigationSpeedText(st) ==
  IF /\ ~st.broken
     /\ "custom" \in st.present
     /\ st.custom # <<>>
     /\ includesParsed(st.custom)
  THEN parseFloat(st.custom).val
  ELSE 100

saveKeyboardSpeedText(st, speed) ==
  IF st.broken THEN st
  ELSE [st EXCEPT !.present = @ \cup {"keyboard", "preferred"},
                  !.keyboard = numberToString(speed),
                  !.preferred = numberToString(speed)]

loadKeyboardSpeedText(st) ==
  IF st.broken THEN 100
  ELSE IF /\ "keyboard" \in st.present
          /\ st.keyboard # <<>>
          /\ includesParsed(st.keyboard)
  THEN parseFloat(st.keyboard).val
  ELSE loadPreferredSpeedText(st)

saveIncreaseSpeedKeyText(st, key) ==
  IF st.broken THEN st
  ELSE [st EXCEPT !.present = @ \cup {"incKey"}, !.incKey = key]

\* loadIncreaseSpeedKey without the catch block taking effect
loadIncreaseSpeedKeyTextUncaught(st) ==
  IF "incKey" \in st.present /\ st.incKey # ""
  THEN st.incKey ELSE "."

loadIncreaseSpeedKeyText(st) ==
  IF ~st.broken /\ "incKey" \in st.present /\ st.incKey # ""
  THEN st.incKey ELSE "."

saveDecreaseSpeedKeyText(st, key) ==
  IF st.broken THEN st
  ELSE [st EXCEPT !.present = @ \cup {"decKey"}, !.decKey = key]

loadDecreaseSpeedKeyText(st) ==
  IF ~st.broken /\ "decKey" \in st.present /\ st.decKey # ""
  THEN st.decKey ELSE ","

\* ------------------------------------------------------------------------
\* Settings: the first second after the script has loaded, with
\* localStorage at the level of its texts. The keydown listener is
\* registered and the preference accessors are callable, the first
\* initialization timer has not fired yet.
\* ------------------------------------------------------------------------
MaxSteps == 3                \* user events and accessor calls per behaviour

AllItems == {"preferred", "keyboard", "navMode", "custom", "incKey", "decKey"}

\* localStorage when the page loads: a fresh profile, a profile with
\* valid settings (the two default keys swapped), a profile whose every
\* item is corrupt, a profile with
\* the same key stored twice, and a profile whose storage throws
InitTextStores ==
  {TextStore({}, <<>>, <<>>, "", <<>>, "", "", FALSE),
   TextStore(AllItems, <<"1", ".", "5">>, <<"1", ".", "5">>, "custom",
             <<"0", ".", "5">>, ",", ".", FALSE),
   TextStore(AllItems, <<"1", ".", "2", "5">>, <<"a", "b", "c">>, "bogus",
             <<"2", "x">>, "ab", "", FALSE),
   TextStore({"navMode", "incKey", "decKey"}, <<>>, <<>>, "default", <<>>,
             "k", "k", FALSE),
   TextStore(AllItems, <<"2">>, <<"2">>, "default", <<"3">>, "k", "j", TRUE)}

\* what the callback that ran last was given and what it did
TextStep(op, key, str, num) ==
  [op |-> op, key |-> key, str |-> str, num |-> num,
   editable |-> FALSE, chord |-> FALSE, overlayFails |-> FALSE,
   prevented |-> FALSE, rejected |-> FALSE, field |-> "",
   other |-> "",
   before |-> storage, rateBefore |-> rate, overlayBefore |-> overlay,
   modalBefore |-> modal]

TextInit ==
  /\ video = "none"
  /\ rate = 100
  /\ hostSeeking = FALSE
  /\ rcPending = <<>>
  /\ storage \in InitTextStores
  /\ isUpdatingSpeed = FALSE
  /\ isApplyingNavigationSpeed = FALSE
  /\ isNavigating = FALSE
  /\ isExtensionInitialized = FALSE
  /\ lastRateChangeValue = 100
  /\ sinceRateChange = DedupWindow
  /\ listeners = <<>>
  /\ timers = <<Timer(InitialDelay, "waitInit", 0, FALSE)>>
  /\ overlay = 0
  /\ menuLabel = NoLabel
  /\ menuEnhanced = FALSE
  /\ locationChanged = FALSE
  /\ events = 0
  /\ navs = 0
  /\ hostOther = FALSE
  /\ hostInSeek = FALSE
  /\ radioChecked = {}
  /\ modal = NoModal
  /\ speedMenu = HostSpeedMenu
  /\ sinceSettingsUpdate = Throttle
  /\ sincePassiveWrite = Throttle
  /\ last = TextStep("load", "", "", 0)

\* the variables no settings callback writes
TextFrame ==
  UNCHANGED <<video, hostSeeking, isApplyingNavigationSpeed, isNavigating,
              isExtensionInitialized, lastRateChangeValue, sinceRateChange,
              listeners, menuLabel, menuEnhanced, locationChanged, navs,
              hostOther, hostInSeek, radioChecked, speedMenu,
              sinceSettingsUpdate, sincePassiveWrite>>

\* savePreferredSpeed(speed), as the augmented menu's click handler calls it
CallSavePreferredSpeed(speed) ==
  /\ events < MaxSteps
  /\ events' = events + 1
  /\ storage' = savePreferredSpeedText(storage, speed)
  /\ last' = TextStep("savePreferredSpeed", "", "", speed)
  /\ UNCHANGED <<rate, rcPending, isUpdatingSpeed, timers, overlay, modal>>
  /\ TextFrame

CallSaveNavigationMode(mode) ==
  /\ events < MaxSteps
  /\ events' = events + 1
  /\ storage' = saveNavigationModeText(storage, mode)
  /\ last' = TextStep("saveNavigationMode", "", mode, 0)
  /\ UNCHANGED <<rate, rcPending, isUpdatingSpeed, timers, overlay, modal>>
  /\ TextFrame

CallSaveCustomNavigationSpeed(speed) ==
  /\ events < MaxSteps
  /\ events' = events + 1
  /\ storage' = saveCustomNavigationSpeedText(storage, speed)
  /\ last' = TextStep("saveCustomNavigationSpeed", "", "", speed)
  /\ UNCHANGED <<rate, rcPending, isUpdatingSpeed, timers, overlay, modal>>
  /\ TextFrame

\* showSpeedSettingsModal: removes the modal when it is open, otherwise
\* builds it from the loaded settings
showSpeedSettingsModal(st, md) ==
  IF md.open THEN NoModal
  ELSE [open |-> TRUE,
        mode |-> loadNavigationModeText(st),
        custom |-> numberToString(loadCustomNavigationSpeedText(st)),
        incValue |-> loadIncreaseSpeedKeyText(st),
        decValue |-> loadDecreaseSpeedKeyText(st)]

\* lines 377-379: the target is an input, a textarea or content-editable
isEditableTargetNever(editable) == FALSE

isEditableTarget(editable) == editable

\* document keydown listener; chord: Ctrl and Shift are held;
\* overlayFails: attaching a new overlay element to the player throws
KeyDownText(k, chord, editable, overlayFails) ==
  /\ events < MaxSteps
  /\ events' = events + 1
  /\ LET increaseKey == loadIncreaseSpeedKeyText(storage)
         decreaseKey == loadDecreaseSpeedKeyText(storage)
         currentIndex == getClosestSpeedIndex(rate)
         newIndex == IF k = increaseKey
                     THEN Min(currentIndex + 1, Len(speedOptions))
                     ELSE Max(currentIndex - 1, 1)
         newRate == speedOptions[newIndex]
         step == [TextStep("keydown", k, "", 0)
                    EXCEPT !.editable = editable, !.chord = chord,
                           !.overlayFails = overlayFails]
     IN IF isEditableTarget(editable)
        THEN /\ last' = step
             /\ UNCHANGED <<rate, rcPending, storage, isUpdatingSpeed,
                            timers, overlay, modal>>
        ELSE IF chord /\ k = "S"
        THEN /\ modal' = showSpeedSettingsModal(storage, modal)
             /\ last' = [step EXCEPT !.prevented = TRUE]
             /\ UNCHANGED <<rate, rcPending, storage, isUpdatingSpeed,
                            timers, overlay>>
        ELSE IF (k # increaseKey /\ k # decreaseKey) \/ video = "none"
        THEN /\ last' = step
             /\ UNCHANGED <<rate, rcPending, storage, isUpdatingSpeed,
                            timers, overlay, modal>>
        ELSE IF overlayFails /\ overlay = 0
        THEN /\ last' = [step EXCEPT !.num = newRate]
             /\ UNCHANGED <<rate, rcPending, storage, isUpdatingSpeed,
                            timers, overlay, modal>>
        ELSE IF newIndex # currentIndex
        THEN /\ overlay' = newRate
             /\ isUpdatingSpeed' = TRUE
             /\ rate' = newRate
             /\ rcPending' = IF newRate # rate THEN Append(rcPending, "key")
                             ELSE rcPending
             /\ storage' = saveKeyboardSpeedText(storage, newRate)
             /\ timers' = Schedule(timers, Timer(0, "keyMenu", newRate, FALSE))
             /\ last' = [step EXCEPT !.num = newRate, !.prevented = TRUE]
             /\ UNCHANGED modal
        ELSE /\ overlay' = newRate
             /\ last' = [step EXCEPT !.num = newRate, !.prevented = TRUE]
             /\ UNCHANGED <<rate, rcPending, storage, isUpdatingSpeed,
                            timers, modal>>
  /\ TextFrame

\* change of a navigation-mode radio button of the modal
ModalSelectMode(mode) ==
  /\ modal.open
  /\ events < MaxSteps
  /\ events' = events + 1
  /\ modal' = [modal EXCEPT !.mode = mode]
  /\ last' = TextStep("modalMode", "", mode, 0)
  /\ UNCHANGED <<rate, rcPending, storage, isUpdatingSpeed, timers, overlay>>
  /\ TextFrame

\* change of the custom-speed select, enabled while custom is selected
ModalSelectCustom(speed) ==
  /\ modal.open
  /\ modal.mode = "custom"
  /\ events < MaxSteps
  /\ events' = events + 1
  /\ modal' = [modal EXCEPT !.custom = numberToString(speed),
                            !.mode = "custom"]
  /\ last' = TextStep("modalCustom", "", "", speed)
  /\ UNCHANGED <<rate, rcPending, storage, isUpdatingSpeed, timers, overlay>>
  /\ TextFrame

\* keys the key-capture fields refuse
RefusedKeys ==
  {"Escape", "Tab", "Enter", "Shift", "Control", "Alt", "Meta"}

\* keydown listener of a key-capture field of the modal; field: "inc"
\* or "dec". The event does not reach the document's listener.
ModalKeyDown(field, k) ==
  /\ modal.open
  /\ events < MaxSteps
  /\ events' = events + 1
  /\ LET otherValue == IF field = "inc" THEN modal.decValue
                       ELSE modal.incValue
     IN modal' = IF k \in RefusedKeys \/ k = otherValue THEN modal
                 ELSE IF field = "inc" THEN [modal EXCEPT !.incValue = k]
                 ELSE [modal EXCEPT !.decValue = k]
  /\ last' = [TextStep("modalKey", k, "", 0)
                EXCEPT !.editable = TRUE, !.prevented = TRUE,
                       !.field = field]
  /\ UNCHANGED <<rate, rcPending, storage, isUpdatingSpeed, timers, overlay>>
  /\ TextFrame

\* the content of a key-capture field is replaced without a key press
\* (paste, cut, drop); maxlength keeps at most one character and the
\* input listener changes nothing
ModalEdit(field, text) ==
  /\ modal.open
  /\ events < MaxSteps
  /\ events' = events + 1
  /\ modal' = IF field = "inc" THEN [modal EXCEPT !.incValue = text]
              ELSE [modal EXCEPT !.decValue = text]
  /\ last' = [TextStep("modalEdit", "", text, 0) EXCEPT !.field = field]
  /\ UNCHANGED <<rate, rcPending, storage, isUpdatingSpeed, timers, overlay>>
  /\ TextFrame

\* lines 1262-1263 without the fallback for an empty field
effectiveKeyRaw(value, fallback) == value

\* lines 1262-1263: input.value || fallback
effectiveKey(value, fallback) == IF value # "" THEN value ELSE fallback

\* line 1266 with the mutation that no pair of keys is refused
keysConflictNever(increaseKey, decreaseKey) == FALSE

\* line 1266
keysConflict(increaseKey, decreaseKey) == increaseKey = decreaseKey

\* click on the modal's save button (the confirmation toast it shows
\* on success is not represented)
ModalSave ==
  /\ modal.open
  /\ events < MaxSteps
  /\ events' = events + 1
  /\ LET selectedMode == modal.mode
         st1 == saveNavigationModeText(storage, selectedMode)
         customSpeed == parseFloat(modal.custom)
         st2 == IF /\ selectedMode = "custom"
                   /\ ~customSpeed.nan
                   /\ customSpeed.exact
                THEN saveCustomNavigationSpeedText(st1, customSpeed.val)
                ELSE st1
         increaseKey == effectiveKey(modal.incValue, ".")
         decreaseKey == effectiveKey(modal.decValue, ",")
         step == [TextStep("modalSave", "", selectedMode, 0)
                    EXCEPT !.key = increaseKey, !.other = decreaseKey]
     IN IF keysConflict(increaseKey, decreaseKey)
        THEN /\ storage' = st2
             /\ last' = [step EXCEPT !.rejected = TRUE]
             /\ UNCHANGED modal
        ELSE /\ storage' =
                  saveDecreaseSpeedKeyText(
                    saveIncreaseSpeedKeyText(st2, increaseKey), decreaseKey)
             /\ modal' = NoModal
             /\ last' = step
  /\ UNCHANGED <<rate, rcPending, isUpdatingSpeed, timers, overlay>>
  /\ TextFrame

\* close button, cancel button, click on the backdrop, or Escape
ModalClose ==
  /\ modal.open
  /\ events < MaxSteps
  /\ events' = events + 1
  /\ modal' = NoModal
  /\ last' = TextStep("modalClose", "", "", 0)
  /\ UNCHANGED <<rate, rcPending, storage, isUpdatingSpeed, timers, overlay>>
  /\ TextFrame

\* the host inserts the video element and it becomes ready
TextVideoAppears ==
  /\ video = "none"
  /\ video' = "ready"
  /\ last' = TextStep("videoAppears", "", "", 0)
  /\ UNCHANGED <<rate, hostSeeking, rcPending, storage, isUpdatingSpeed,
                 isApplyingNavigationSpeed, isNavigating,
                 isExtensionInitialized, lastRateChangeValue,
                 sinceRateChange, listeners, timers, overlay, menuLabel,
                 menuEnhanced, locationChanged, events, navs, hostOther, hostInSeek,
                 radioChecked, modal, speedMenu,
                 sinceSettingsUpdate, sincePassiveWrite>>

\* inputs of the settings callbacks
SavedModes == NAVIGATION_MODES \cup {"bogus"}
SavedCustomSpeeds == Options \cup {125}
TextKeyPresses ==
  {<<".", FALSE, FALSE, FALSE>>, <<",", FALSE, FALSE, FALSE>>,
   <<"k", FALSE, FALSE, FALSE>>, <<"S", TRUE, FALSE, FALSE>>,
   <<".", FALSE, TRUE, FALSE>>, <<"k", FALSE, TRUE, FALSE>>,
   <<"S", TRUE, TRUE, FALSE>>, <<".", FALSE, FALSE, TRUE>>,
   <<"k", FALSE, FALSE, TRUE>>}
CustomChoices == {50, 300}
CapturedKeys == {"m", ",", "Enter", "ArrowUp"}
EditedTexts == {"", ","}

TextNext ==
  \/ \E speed \in Options : CallSavePreferredSpeed(speed)
  \/ \E mode \in SavedModes : CallSaveNavigationMode(mode)
  \/ \E speed \in SavedCustomSpeeds : CallSaveCustomNavigationSpeed(speed)
  \/ \E p \in TextKeyPresses : KeyDownText(p[1], p[2], p[3], p[4])
  \/ \E mode \in NAVIGATION_MODES : ModalSelectMode(mode)
  \/ \E speed \in CustomChoices : ModalSelectCustom(speed)
  \/ \E field \in {"inc", "dec"}, k \in CapturedKeys : ModalKeyDown(field, k)
  \/ \E field \in {"inc", "dec"}, text \in EditedTexts : ModalEdit(field, text)
  \/ ModalSave
  \/ ModalClose
  \/ TextVideoAppears

PrefSpec == TextInit /\ [][TextNext]_vars

\* C18: after a key press has changed the rate to r, once the handler's
\* deferred menu update has run, the augmented speed menu (when present)
\* has the entry for r as its one checked radio entry and the host's
\* "Playback speed" item shows r.
C18_MenuFollowsKey ==
  (/\ last.op = "keyMenu"
   /\ menuEnhanced
   /\ menuLabel # NoLabel
   /\ rate = last.speed)
  => (radioChecked = {last.speed} /\ menuLabel = last.speed)

\* C19: in default mode every initialization for a video, on the first
\* page load as well as on an in-page navigation, applies the target
\* rate 1x, whatever preferredSpeed holds.
C19_DefaultModeStart ==
  (/\ last.op \in {"waitInit", "navStart"}
   /\ last.speed # 0
   /\ loadNavigationMode(storage) = "default")
  => (last.speed = 100 /\ Abs(rate - 100) <= Epsilon)

\* C20: no step stores a preferredSpeed outside the table: after a step
\* that writes preferredSpeed, and after any step taken from a state
\* whose stored preferredSpeed was absent or a table entry, the stored
\* preferredSpeed is absent or a table entry (also when the ratechange
\* listener handles an off-table rate such as 1.25).
C20_StoredSpeedInTable ==
  (last.prefWrites > 0 \/ last.prefBefore \in Options \cup {NoItem})
  => storage.preferred \in Options \cup {NoItem}

C20_Witness ==
  /\ last.op = "ratechange"
  /\ last.origin = "host"
  /\ last.handled
  /\ rate = 125
  /\ last.prefWrites = 0
  /\ storage.preferred = 500

\* C11: while localStorage works, loading a preference right after saving
\* it returns what was saved: loadNavigationMode() after
\* saveNavigationMode(m) is m for each of the three modes, and
\* loadPreferredSpeed() after savePreferredSpeed(s) and
\* loadCustomNavigationSpeed() after saveCustomNavigationSpeed(s) are s
\* for every table entry s.
C11_RoundTrip ==
  /\ (/\ last.op = "saveNavigationMode"
      /\ last.str \in NAVIGATION_MODES
      /\ ~storage.broken)
     => loadNavigationModeText(storage) = last.str
  /\ (/\ last.op = "savePreferredSpeed"
      /\ last.num \in Options
      /\ ~storage.broken)
     => loadPreferredSpeedText(storage) = last.num
  /\ (/\ last.op = "saveCustomNavigationSpeed"
      /\ last.num \in Options
      /\ ~storage.broken)
     => loadCustomNavigationSpeedText(storage) = last.num
  /\ (/\ last.op = "modalSave"
      /\ ~storage.broken)
     => /\ loadNavigationModeText(storage) = last.str
        /\ last.str = "custom"
           => numberToString(loadCustomNavigationSpeedText(storage))
                = last.modalBefore.custom

C11_Witness ==
  /\ last.op = "saveCustomNavigationSpeed"
  /\ last.num = 350
  /\ last.before.custom = <<"2", "x">>
  /\ storage.custom = <<"3", ".", "5">>
  /\ loadCustomNavigationSpeedText(storage) = 350

\* the one-character key names that occur
SingleCharacters == {".", ",", "k", "j", "m", "S"}

\* the stored text is the text of a table entry
IsTableText(text) == \E s \in Options : numberToString(s) = text

\* C12: whenever a stored preference is absent or invalid (a speed text
\* that is no table entry, a mode that is none of the three, a key that
\* is not a single character), its load accessor returns the default:
\* 1 for preferredSpeed and customNavigationSpeed, "continue" for the
\* navigation mode, "." and "," for the keys.
C12_DefaultsOnInvalid ==
  /\ ("preferred" \notin storage.present \/ ~IsTableText(storage.preferred))
     => loadPreferredSpeedText(storage) = 100
  /\ ("navMode" \notin storage.present
        \/ storage.navMode \notin NAVIGATION_MODES)
     => loadNavigationModeText(storage) = "continue"
  /\ ("custom" \notin storage.present \/ ~IsTableText(storage.custom))
     => loadCustomNavigationSpeedText(storage) = 100
  /\ ("incKey" \notin storage.present
        \/ storage.incKey \notin SingleCharacters)
     => loadIncreaseSpeedKeyText(storage) = "."
  /\ ("decKey" \notin storage.present
        \/ storage.decKey \notin SingleCharacters)
     => loadDecreaseSpeedKeyText(storage) = ","

\* C13: a click on the modal's save button while the increase key equals
\* the decrease key is rejected: the modal stays open and the stored
\* increase key and decrease key are what they were before the click.
C13_EqualKeysRejected ==
  (last.op = "modalSave" /\ last.key = last.other)
  => /\ last.rejected
     /\ modal.open
     /\ ("incKey" \in storage.present) = ("incKey" \in last.before.present)
     /\ ("decKey" \in storage.present) = ("decKey" \in last.before.present)
     /\ storage.incKey = last.before.incKey
     /\ storage.decKey = last.before.decKey

C13_Witness ==
  /\ last.op = "modalSave"
  /\ last.key = ","
  /\ last.other = ","
  /\ last.modalBefore.incValue = ","
  /\ "incKey" \notin storage.present
  /\ modal.open

\* C14: a rejected save writes nothing: after a click on the save button
\* that is rejected for equal keys, every stored preference, navigation
\* mode and custom navigation speed included, is what it was before.
C14_RejectedSaveWritesNothing ==
  (last.op = "modalSave" /\ last.rejected) => storage = last.before

C16_KeyWritesDespiteFailure ==
  (/\ last.op = "keydown"
   /\ ~last.editable
   /\ ~last.chord
   /\ video # "none"
   /\ last.key \in {loadIncreaseSpeedKeyText(last.before),
                    loadDecreaseSpeedKeyText(last.before)}
   /\ last.num # 0
   /\ last.num # speedOptions[getClosestSpeedIndex(last.rateBefore)])
  => rate = last.num

\* C17: while every access to localStorage throws, each load accessor
\* returns its default (1, "continue", 1, 1, "." and ","), no save
\* changes the store, and a press of "." or "," outside editable
\* elements, with a video in the page and a presentable overlay, sets
\* the rate to the next or previous table entry.
C17_StorageFailure ==
  storage.broken =>
    /\ loadPreferredSpeedText(storage) = 100
    /\ loadNavigationModeText(storage) = "continue"
    /\ loadCustomNavigationSpeedText(storage) = 100
    /\ loadKeyboardSpeedText(storage) = 100
    /\ loadIncreaseSpeedKeyText(storage) = "."
    /\ loadDecreaseSpeedKeyText(storage) = ","
    /\ storage = last.before
    /\ (/\ last.op = "keydown"
        /\ ~last.editable
        /\ ~last.chord
        /\ ~(last.overlayFails /\ last.overlayBefore = 0)
        /\ video # "none")
       => /\ last.key = "."
             => rate = speedOptions[Min(getClosestSpeedIndex(last.rateBefore) + 1,
                                        Len(speedOptions))]
          /\ last.key = ","
             => rate = speedOptions[Max(getClosestSpeedIndex(last.rateBefore) - 1,
                                        1)]
    /\ (last.op = "keydown" /\ last.chord /\ ~last.editable
          /\ ~last.modalBefore.open)
       => /\ modal.open
          /\ modal.mode = "continue"
          /\ modal.incValue = "."
          /\ modal.decValue = ","

C17_Witness ==
  /\ storage.broken
  /\ storage.incKey = "k"
  /\ last.op = "keydown"
  /\ last.key = "."
  /\ last.rateBefore = 100
  /\ rate = 150
  /\ storage.preferred = <<"2">>

\* C21: the configuration surface never makes the two effective keys
\* equal: after a key capture, an edit of a field, a save or a rejected
\* save taken from a store whose loaded increase and decrease keys
\* differ (the default store among them), the loaded keys still differ.
C21_KeysStayDistinct ==
  (/\ last.op \in {"modalKey", "modalEdit", "modalSave", "modalMode",
                   "modalCustom", "modalClose", "keydown"}
   /\ loadIncreaseSpeedKeyText(last.before)
        # loadDecreaseSpeedKeyText(last.before))
  => loadIncreaseSpeedKeyText(storage) # loadDecreaseSpeedKeyText(storage)

C21_Witness ==
  /\ last.op = "modalSave"
  /\ last.rejected
  /\ last.modalBefore.decValue = ""
  /\ last.modalBefore.incValue = ","
  /\ loadIncreaseSpeedKeyText(storage) = ","
  /\ loadDecreaseSpeedKeyText(storage) = "."

\* C22: a save through the settings modal, from a store whose keys are
\* single characters or absent, stores only single characters as
\* increase key and decrease key; the name of an arrow or function key
\* is never stored.
C22_StoredKeysSingleCharacter ==
  (/\ last.op = "modalSave"
   /\ ~last.rejected
   /\ ~storage.broken
   /\ loadIncreaseSpeedKeyText(last.before) \in SingleCharacters
   /\ loadDecreaseSpeedKeyText(last.before) \in SingleCharacters)
  => /\ storage.incKey \in SingleCharacters
     /\ storage.decKey \in SingleCharacters

\* C23: every rate write of the controller (key step, menu click, initial
\* or navigation apply, seek recovery, navigation re-assertion) sets
\* isUpdatingSpeed, and the flag is reset by the write's own settle
\* timer: once no timer and no ratechange notification is pending, the
\* flag is false.
C23_FlagSetAndReset ==
  /\ (/\ last.op \in {"keydown", "click", "waitInit", "navStart",
                      "seekRecover", "navReassert"}
      /\ last.rateWrites > 0)
     => isUpdatingSpeed
  /\ (timers = <<>> /\ rcPending = <<>>) => ~isUpdatingSpeed

\* C24 as stated: a ratechange notification for a rate set by the host
\* that is a table entry, handled while isUpdatingSpeed is false, not
\* dropped as a duplicate, outside a seek, and not the continue-mode
\* navigation reset, is persisted: afterwards the stored preferredSpeed
\* is that rate.
C24_ExternalChangePersisted ==
  (/\ last.op = "ratechange"
   /\ last.origin = "host"
   /\ listeners # <<>>
   /\ ~isUpdatingSpeed
   /\ last.handled
   /\ ~hostSeeking
   /\ \A i \in 1..Len(listeners) : ~listeners[i]
   /\ ~last.reassert
   /\ rate \in Options)
  => storage.preferred = rate

\* C24, amended: such a notification is persisted unless it reports the
\* rate 1 while isNavigating is set or arrives while a navigation apply
\* is settling (isApplyingNavigationSpeed); a rate of 1 reported during
\* a navigation is never stored, in any navigation mode.
C24_ExternalChangePersistedOutsideReset ==
  /\ (/\ last.op = "ratechange"
      /\ last.origin = "host"
      /\ listeners # <<>>
      /\ ~isUpdatingSpeed
      /\ last.handled
      /\ ~hostSeeking
      /\ \A i \in 1..Len(listeners) : ~listeners[i]
      /\ ~last.reassert
      /\ rate \in Options
      /\ ~isApplyingNavigationSpeed
      /\ (~isNavigating \/ rate # 100))
     => (storage.preferred = rate /\ last.prefWrites > 0)
  /\ (/\ last.op = "ratechange"
      /\ isNavigating
      /\ rate = 100)
     => last.prefWrites = 0

C24_Witness ==
  /\ last.op = "ratechange"
  /\ last.origin = "host"
  /\ last.handled
  /\ ~isUpdatingSpeed
  /\ ~isApplyingNavigationSpeed
  /\ isNavigating
  /\ rate = 200
  /\ last.prefBefore = 250
  /\ storage.preferred = 200

\* C25: after a key press or a click on the augmented menu has settled
\* (no timer pending), a change made in the host's own menu to a table
\* rate, outside seek and navigation and not a repetition of the rate
\* handled last, is persisted: after its ratechange notification the
\* stored preferredSpeed is that rate.
C25_NoLostUpdate ==
  (/\ last.op = "ratechange"
   /\ last.origin = "host"
   /\ listeners # <<>>
   /\ timers = <<>>
   /\ ~isNavigating
   /\ ~hostSeeking
   /\ \A i \in 1..Len(listeners) : ~listeners[i]
   /\ (last.handled \/ rate # lastRateChangeValue)
   /\ rate \in Options)
  => storage.preferred = rate

\* C26: a user command does not write preferredSpeed in its own
\* callback: right after a key press or a click on the augmented menu
\* the stored preferredSpeed has not been written yet.
C26_PersistAfterSettle ==
  (last.op \in {"keydown", "click"} /\ last.rateWrites > 0)
  => last.prefWrites = 0

\* a pending timer of this kind carries this speed
HasTimer(kind, speed) ==
  \E i \in 1..Len(timers) : timers[i].kind = kind /\ timers[i].speed = speed

\* C27: a navigation apply stores its target as preferredSpeed exactly
\* in continue mode. In continue mode (stored, or nothing stored) the
\* save of the target is pending after an apply that found the rate
\* matching and after the settle callback of an apply that changed the
\* rate, and the save then stores the target. With default or custom
\* stored no such save is ever pending or run, and the apply itself
\* writes no preference.
C27_NavigationApplyPersists ==
  LET continue == storage.navMode \notin {"default", "custom"}
  IN /\ (/\ last.op \in {"waitInit", "navStart"}
         /\ last.nav
         /\ last.speed # 0)
        => /\ last.prefWrites = 0
           /\ storage.preferred = last.prefBefore
           /\ continue =>
                IF last.rateWrites > 0
                THEN \E i \in 1..Len(timers) :
                        /\ timers[i].kind = "applyDone"
                        /\ timers[i].nav
                        /\ timers[i].speed = last.speed
                ELSE HasTimer("persist", last.speed)
     /\ (last.op = "applyDone" /\ last.nav /\ continue)
        => HasTimer("persist", last.speed)
     /\ last.op = "persist"
        => (storage.preferred = last.speed /\ continue)
     /\ ~continue => \A i \in 1..Len(timers) : timers[i].kind # "persist"

C27_Witness ==
  /\ last.op = "persist"
  /\ last.prefBefore = 125
  /\ storage.preferred = 100
  /\ isNavigating

\* C28: a ratechange notification that arrives less than 100 ms after
\* the one processed last and reports the same rate is dropped: it
\* writes no preference, shows no overlay, updates neither the menu
\* label nor the menu entries and arms no timer.
C28_DuplicateDropped ==
  [][(/\ rcPending # <<>>
      /\ last'.op = "ratechange"
      /\ listeners # <<>>
      /\ sinceRateChange < DedupWindow
      /\ rate = lastRateChangeValue)
     => (/\ ~last'.handled
         /\ last'.prefWrites = 0
         /\ ~last'.shown
         /\ storage' = storage
         /\ overlay' = overlay
         /\ menuLabel' = menuLabel
         /\ radioChecked' = radioChecked
         /\ timers' = timers
         /\ lastRateChangeValue' = lastRateChangeValue
         /\ sinceRateChange' = sinceRateChange)]_vars

C28_Witness ==
  /\ last.op = "ratechange"
  /\ last.origin = "host"
  /\ listeners # <<>>
  /\ ~isUpdatingSpeed
  /\ ~last.handled
  /\ sinceRateChange < DedupWindow
  /\ rate = lastRateChangeValue
  /\ rate = 200

\* What the browser's event loop guarantees: a timer that is due runs,
\* a queued ratechange event and an observed mutation are delivered, and
\* time passes. Nothing obliges the host or the user to act.
EventLoop ==
  \/ WaitForVideo
  \/ NavStart
  \/ ApplyDone
  \/ Persist
  \/ PostInitMenu
  \/ KeyMenu
  \/ ClickMenu
  \/ SeekRecover
  \/ SeekDone
  \/ NavReassert
  \/ ReassertDone
  \/ NavMenu
  \/ NavClear
  \/ RateChange
  \/ AutoApplyObserver
  \/ \E d \in NextInstants : Advance(d)

LiveSpec == Init /\ [][Next]_vars /\ WF_vars(EventLoop)

\* C29: the wait for a ready video is a bounded poll: when no video ever
\* becomes ready, from some point on no further
\* waitForVideoAndFullyInitialize is scheduled.
C29_PollStops ==
  ([](video # "ready"))
  => <>[](\A i \in 1..Len(timers) : timers[i].kind # "waitInit")

\* C30: isNavigating stays set until the settle window of the latest
\* navigation has elapsed: while a timer of a navigation's chain
\* (initialization, menu update, clearing of the flag) is pending,
\* isNavigating is true, also when a second location change was
\* detected before the timers of the first had fired.
C30_NavigatingUntilSettled ==
  (\E i \in 1..Len(timers) :
      timers[i].kind \in {"navStart", "navMenu", "navClear"})
  => isNavigating

\* ------------------------------------------------------------------------
\* C31: the host speed menu is augmented with the speed table at most once
\* per menu node: whatever number of mutation batches the settings
\* observers have seen, a menu that carries the marker holds each table
\* entry exactly once.
C31_AugmentedOnce ==
  speedMenu.marked => speedMenu.copies = 1

\* ------------------------------------------------------------------------
\* Passive resynchronization of the host settings menu: the callbacks that
\* setupSpeedSynchronization registers on the player and the settings
\* panel, from a page whose initialization has completed.
\* ------------------------------------------------------------------------
MaxCopies == 2      \* copies of the table appended to one speed menu

\* clearTimeout(menuUpdateTimeout) when one is pending, then a new timeout
RECURSIVE Cancel(_, _)
Cancel(ts, kind) ==
  IF ts = <<>> THEN <<>>
  ELSE IF Head(ts).kind = kind THEN Cancel(Tail(ts), kind)
  ELSE <<Head(ts)>> \o Cancel(Tail(ts), kind)

debounceMenuUpdate(ts, delay) ==
  Schedule(Cancel(ts, "menuUpdate"), Timer(delay, "menuUpdate", 0, FALSE))

\* updateSettingsMenuSpeedValue on [label, since]: nothing while
\* isUpdatingSpeed or within the throttle window; else the time of the
\* update is recorded and the label is written
updateSettingsMenuSpeedValue(m, playbackRate) ==
  IF isUpdatingSpeed \/ m.since < Throttle THEN m
  ELSE [m EXCEPT !.since = 0,
                 !.label = IF @ = NoLabel THEN @ ELSE playbackRate]

directUpdateSettingsMenu(label, playbackRate) ==
  IF label = NoLabel THEN label ELSE playbackRate

\* the page after initialization has completed and its timers have run:
\* the stored speed is applied and shown, one set of listeners and
\* observers is registered
MenuInit ==
  /\ video = "ready"
  /\ storage = Store(NoItem, "absent", NoItem)
  /\ rate = loadPreferredSpeed(storage)
  /\ hostSeeking = FALSE
  /\ rcPending = <<>>
  /\ isUpdatingSpeed = FALSE
  /\ isApplyingNavigationSpeed = FALSE
  /\ isNavigating = FALSE
  /\ isExtensionInitialized = TRUE
  /\ lastRateChangeValue = 100
  /\ sinceRateChange = DedupWindow
  /\ listeners = <<FALSE>>
  /\ timers = <<>>
  /\ overlay = 0
  /\ menuLabel = rate
  /\ menuEnhanced = FALSE
  /\ locationChanged = FALSE
  /\ events = 0
  /\ navs = 0
  /\ hostOther = FALSE
  /\ hostInSeek = FALSE
  /\ radioChecked = {}
  /\ modal = NoModal
  /\ speedMenu = HostSpeedMenu
  /\ sinceSettingsUpdate = Throttle
  /\ sincePassiveWrite = Throttle
  /\ last = [Step("load", "", 0, 0, 0, FALSE)
               EXCEPT !.rateBefore = loadPreferredSpeed(storage)]

\* settingsObserver: a mutation batch in the player; present: the speed
\* menu is in the player, visible: the settings menu is displayed
SettingsObserver(present, visible) ==
  /\ Len(listeners) > 0
  /\ menuLabel # NoLabel
  /\ present \/ visible
  /\ present => speedMenu.copies + Len(listeners) <= MaxCopies
  /\ speedMenu' = IF present THEN EnhanceN(speedMenu, Len(listeners))
                  ELSE speedMenu
  /\ menuEnhanced' = (speedMenu'.copies > 0)
  /\ radioChecked' = IF present
                     THEN enhanceRadios(speedMenu, radioChecked, rate)
                     ELSE radioChecked
  /\ timers' = IF visible THEN debounceMenuUpdate(timers, MenuDebounce)
               ELSE timers
  /\ last' = Step("settingsObserver", "", 0, 0, 0, FALSE)
  /\ UNCHANGED <<video, rate, hostSeeking, rcPending, storage,
                 isUpdatingSpeed, isApplyingNavigationSpeed, isNavigating,
                 isExtensionInitialized, lastRateChangeValue,
                 sinceRateChange, listeners, overlay, menuLabel,
                 locationChanged, events, navs, hostOther, hostInSeek, modal,
                 sinceSettingsUpdate, sincePassiveWrite>>

\* click on the host's settings button
SettingsButtonClick ==
  /\ Len(listeners) > 0
  /\ timers' = debounceMenuUpdate(timers, MenuDebounce)
  /\ last' = Step("settingsButton", "", 0, 0, 0, FALSE)
  /\ UNCHANGED <<video, rate, hostSeeking, rcPending, storage,
                 isUpdatingSpeed, isApplyingNavigationSpeed, isNavigating,
                 isExtensionInitialized, lastRateChangeValue,
                 sinceRateChange, listeners, overlay, menuLabel,
                 menuEnhanced, locationChanged, events, navs, hostOther, hostInSeek,
                 radioChecked, modal, speedMenu, sinceSettingsUpdate,
                 sincePassiveWrite>>

\* panelObserver: a mutation batch in the settings panel
PanelObserver ==
  /\ Len(listeners) > 0
  /\ menuLabel # NoLabel
  /\ timers' = debounceMenuUpdate(timers, PanelDebounce)
  /\ last' = Step("panelObserver", "", 0, 0, 0, FALSE)
  /\ UNCHANGED <<video, rate, hostSeeking, rcPending, storage,
                 isUpdatingSpeed, isApplyingNavigationSpeed, isNavigating,
                 isExtensionInitialized, lastRateChangeValue,
                 sinceRateChange, listeners, overlay, menuLabel,
                 menuEnhanced, locationChanged, events, navs, hostOther, hostInSeek,
                 radioChecked, modal, speedMenu, sinceSettingsUpdate,
                 sincePassiveWrite>>

\* the menuUpdateTimeout callback: updateSettingsMenuSpeedValue, then
\* directUpdateSettingsMenu, both with video.playbackRate
MenuUpdate ==
  /\ Due("menuUpdate")
  /\ LET m == updateSettingsMenuSpeedValue(
                [label |-> menuLabel, since |-> sinceSettingsUpdate], rate)
         label == directUpdateSettingsMenu(m.label, rate)
         wrote == label # menuLabel
     IN /\ menuLabel' = label
        /\ sinceSettingsUpdate' = m.since
        /\ sincePassiveWrite' = IF wrote THEN 0 ELSE sincePassiveWrite
        /\ last' = [Step("menuUpdate", "", rate, 0, 0, FALSE)
                      EXCEPT !.labelGap = IF wrote THEN sincePassiveWrite
                                          ELSE Throttle]
  /\ timers' = Tail(timers)
  /\ UNCHANGED <<video, rate, hostSeeking, rcPending, storage,
                 isUpdatingSpeed, isApplyingNavigationSpeed, isNavigating,
                 isExtensionInitialized, lastRateChangeValue,
                 sinceRateChange, listeners, overlay, menuEnhanced,
                 locationChanged, events, navs, hostOther, hostInSeek, radioChecked,
                 modal, speedMenu>>

MenuNext ==
  \/ \E present, visible \in BOOLEAN : SettingsObserver(present, visible)
  \/ SettingsButtonClick
  \/ PanelObserver
  \/ MenuUpdate
  \/ \E speed \in ClickSpeeds : MenuClick(speed)
  \/ ClickMenu
  \/ \E r \in HostRates : HostSetRate(r)
  \/ RateChange
  \/ \E d \in NextInstants : Advance(d)

MenuSpec == MenuInit /\ [][MenuNext]_vars

\* C32: label writes of the passive resynchronization (the menu-update
\* timer armed by menu visibility changes, settings-button clicks and
\* panel mutations) happen at most once in any 500 ms interval: when the
\* timer's callback writes the label, its previous write lies at least
\* 500 ms back.
C32_PassiveWriteThrottled ==
  last.op = "menuUpdate" => last.labelGap >= Throttle

\* ------------------------------------------------------------------------
\* Key steps from any observed rate: the page after initialization on a
\* fresh profile, with the rate the host has set (and the listener has
\* processed) drawn from the range the media element accepts
\* ------------------------------------------------------------------------
ObservedRates == (6..560) \cup {1600}

IndexInit ==
  /\ video = "ready"
  /\ rate \in ObservedRates
  /\ storage = IF rate # 100 /\ rate \in Options
               THEN savePreferredSpeed(Store(NoItem, "absent", NoItem), rate)
               ELSE Store(NoItem, "absent", NoItem)
  /\ hostSeeking = FALSE
  /\ rcPending = <<>>
  /\ isUpdatingSpeed = FALSE
  /\ isApplyingNavigationSpeed = FALSE
  /\ isNavigating = FALSE
  /\ isExtensionInitialized = TRUE
  /\ lastRateChangeValue = rate
  /\ sinceRateChange = DedupWindow
  /\ listeners = <<FALSE>>
  /\ timers = <<>>
  /\ overlay = IF rate # 100 THEN rate ELSE 0
  /\ menuLabel = rate
  /\ menuEnhanced = FALSE
  /\ locationChanged = FALSE
  /\ events = 0
  /\ navs = 0
  /\ hostOther = (rate # 100)
  /\ hostInSeek = (rate # 100)
  /\ radioChecked = {}
  /\ modal = NoModal
  /\ speedMenu = HostSpeedMenu
  /\ sinceSettingsUpdate = Throttle
  /\ sincePassiveWrite = Throttle
  /\ last = [Step("load", "", 0, 0, 0, FALSE) EXCEPT !.rateBefore = 100]

\* the key handler arms only its zero-delay menu update, and the rate
\* changes it makes are dropped by the listener's guard: no timer and no
\* time window is pending between the steps
IndexNext ==
  \/ \E kp \in KeyPresses : KeyDown(kp[1], kp[2])
  \/ KeyMenu
  \/ RateChange

IndexSpec == IndexInit /\ [][IndexNext]_vars

\* distance of table entry i to the rate r rounded to one decimal
Dist(i, r) == Abs(speedOptions[i] - RoundTenth(r))

\* C33: for every observed rate getClosestSpeedIndex returns a valid table
\* index: that of the entry equal (within epsilon) to the rate rounded to
\* one decimal when there is one, otherwise that of the entry nearest to
\* the rounded rate, the lowest such index on a tie.
C33_ClosestIndex ==
  LET Idx == 1..Len(speedOptions)
      i == getClosestSpeedIndex(rate)
  IN /\ i \in Idx
     /\ IF \E j \in Idx : Dist(j, rate) < Epsilon
        THEN Dist(i, rate) < Epsilon
        ELSE /\ \A j \in Idx : Dist(i, rate) <= Dist(j, rate)
             /\ \A j \in Idx : j < i => Dist(j, rate) > Dist(i, rate)

\* an off-table rate between two entries, resolved by a key press
C33_Witness ==
  /\ last.op = "keydown"
  /\ last.rateBefore = 125
  /\ Dist(getClosestSpeedIndex(125), 125) = 20
  /\ last.key = ","
  /\ rate = speedOptions[getClosestSpeedIndex(125) - 1]

\* C37: for every observed rate, off-table rates set by the host
\* included, the increase key pressed below the table maximum sets the
\* rate to the smallest table entry strictly greater than the observed
\* rate, and the decrease key pressed above the table minimum sets it to
\* the largest entry strictly smaller.
C37_KeyStepNeighbour ==
  (/\ last.op = "keydown"
   /\ ~last.editable
   /\ video # "none")
  => LET before == last.rateBefore
         above == {o \in Options : o > before}
         below == {o \in Options : o < before}
     IN /\ (last.key = loadIncreaseSpeedKey(storage) /\ above # {})
             => \A o \in above : rate <= o /\ rate \in above
        /\ (last.key = loadDecreaseSpeedKey(storage) /\ below # {})
             => \A o \in below : rate >= o /\ rate \in below

\* C34: when the host has not changed the media rate since the seek
\* started, the recovery that follows the end of the seek leaves the media
\* rate as it is; in particular, in default or custom mode, a rate applied
\* by a navigation that differs from the stored preferredSpeed is still
\* in effect after the seek.
C34_SeekKeepsRate ==
  (last.op = "seekRecover" /\ ~hostInSeek)
  => (last.rateWrites = 0 /\ rate = last.rateBefore)

\* C35: a preferredSpeed stored by a user command (key press or click on
\* an augmented menu entry) is not overwritten by a delayed automatic
\* write that carries an older value: when the deferred continue-mode
\* save runs right after a user command that stored a speed, the stored
\* preferredSpeed is still the user's.
C35_UserPreferenceKept ==
  (/\ last.op = "persist"
   /\ last.prevOp \in {"keydown", "click"}
   /\ last.prevRateWrites = 1)
  => storage.preferred = last.prefBefore

\* C36: in continue mode, in every quiescent state (no timer and no
\* rate-change notification pending, no seek in progress, not navigating)
\* in which the media rate is a table entry, the stored preferredSpeed
\* equals the media rate.
C36_ContinuePreferenceIsRate ==
  (/\ loadNavigationMode(storage) = "continue"
   /\ timers = <<>>
   /\ rcPending = <<>>
   /\ ~hostSeeking
   /\ \A i \in 1..Len(listeners) : ~listeners[i]
   /\ ~isNavigating
   /\ ~locationChanged
   /\ isExtensionInitialized
   /\ rate \in Options)
  => loadPreferredSpeed(storage) = rate

\* C38: after any number of in-page navigations that reuse the media
\* element, one rate-change notification leads to at most one
\* preferredSpeed write, at most one overlay display and at most one
\* scheduled re-assertion, however many listeners earlier
\* initializations have registered.
C38_OneEffectPerNotification ==
  last.op = "ratechange"
  => (/\ last.prefWrites <= 1
      /\ last.shows <= 1
      /\ last.reasserts <= 1)

\* a host change processed with the listeners of two initializations
\* registered
C38_Witness ==
  /\ last.op = "ratechange"
  /\ Len(listeners) >= 2
  /\ last.origin = "host"
  /\ last.handled
  /\ last.prefWrites = 1
  /\ last.shows = 1

CountTimers(ts, kind) ==
  Cardinality({i \in 1..Len(ts) : ts[i].kind = kind})

\* C39: a mutation batch that finds the location changed starts the
\* re-initialization once (initialized flag reset, isNavigating set, one
\* wait-and-initialize scheduled) and records the location, so that the
\* batches that follow find it unchanged; a mutation batch that finds the
\* location unchanged modifies no controller state, no stored preference
\* and not the media rate.
C39_ReinitOncePerChange ==
  [][last'.op = "mutation"
     => IF locationChanged
        THEN /\ ~locationChanged'
             /\ isNavigating'
             /\ ~isExtensionInitialized'
             /\ CountTimers(timers', "navStart")
                  = CountTimers(timers, "navStart") + 1
             /\ Len(timers') = Len(timers) + 1
             /\ UNCHANGED <<rate, storage, rcPending, listeners,
                            isUpdatingSpeed, isApplyingNavigationSpeed>>
        ELSE UNCHANGED <<rate, storage, rcPending, listeners, timers,
                         isUpdatingSpeed, isApplyingNavigationSpeed,
                         isNavigating, isExtensionInitialized,
                         lastRateChangeValue, sinceRateChange, overlay,
                         menuLabel, radioChecked, speedMenu,
                         locationChanged>>]_vars

\* a mutation batch that finds the location unchanged, before any time has
\* passed since the batch that detected the change: one pipeline is pending
C39_Witness ==
  /\ last.op = "mutation"
  /\ ~last.nav
  /\ \E i \in 1..Len(timers) :
       timers[i].kind = "navStart" /\ timers[i].rem = NavStartDelay
  /\ navs = 1
  /\ isNavigating
  /\ ~isExtensionInitialized
  /\ CountTimers(timers, "navStart") = 1
====
